---- MODULE Spec2Model ----
(***************************************************************************)
(* Request plane of the gateway: streaming generators (app/upstreams.py,   *)
(* app/openai_routes.py), admission and health gating around the route     *)
(* handlers (app/music_routes.py, app/ui_routes.py, app/images_routes.py,  *)
(* app/health_checker.py) and the router (app/router.py,                   *)
(* app/model_aliases.py), and the tool bus (app/tools_bus.py).             *)
(***************************************************************************)
EXTENDS Integers, Sequences, FiniteSets, TLC

VARIABLES
    \* ---- one streamed response (upstreams.py / openai_routes.py) ----
    s_endpoint,     \* "none" | "chat" | "completions": the handler that built the stream
    s_backend,      \* "mlx" | "ollama": route.backend of the streamed request
    s_state,        \* "idle" | "connecting" | "streaming" | "closed"
    s_up,           \* upstream events seen so far (status, chunks, end/error)
    s_out,          \* frames written to the client, in order
    sent_role,      \* stream_ollama_chat_as_openai's local sent_role
    s_conn,         \* the upstream connection: "none" | "open" | "closed"
    s_late          \* frames the generator yields after the client has gone

streamVars == <<s_endpoint, s_backend, s_state, s_up, s_out, sent_role, s_conn, s_late>>

VARIABLES
    \* ---- admission and health around the route handlers ----
    available,      \* AdmissionController: free slots per (backend_class, capability)
    _status,        \* HealthChecker._status: backend_class -> HealthStatus (NoStatus: no entry)
    reqs            \* the requests in flight: one record per request

admitVars == <<available, _status, reqs>>

VARIABLES
    \* ---- routing of chat/completions requests ----
    settings,       \* config.S: ROUTER_ENABLE_POLICY, ROUTER_ENABLE_REQUEST_TYPE
    alias_source,   \* the alias payload MODEL_ALIASES_JSON / MODEL_ALIASES_PATH holds now
    _ALIASES_CACHE, \* model_aliases._ALIASES_CACHE: None or the table loaded once
    rq,             \* the last routed request with its decision and its response
    seen            \* an earlier call of decide_route: its arguments and its result

routeVars == <<settings, alias_source, _ALIASES_CACHE, rq, seen>>

VARIABLES
    \* ---- the tool bus (app/tools_bus.py) ----
    tool_settings,  \* config.S: TOOLS_ALLOWLIST and the TOOLS_ALLOW_* toggles
    issued,         \* how many replay ids new_id("tool") has handed out
    tool_log,       \* the lines of the tool log TOOLS_LOG_PATH, oldest first
    tool_last,      \* the last tool request with the response it got
    tool_prev       \* the executed tool request before that one, with its response

toolVars == <<tool_settings, issued, tool_log, tool_last, tool_prev>>

VARIABLES
    \* ---- runs that call tools: the tool loop (app/main.py) and agent runs ----
    tl,             \* the tool loop of one chat request: its position and what it did
    agent_settings, \* config.S: AGENT_SHED_HEAVY
    agent_runs,     \* the agent runs: one record per run
    heavy_slots     \* free slots of the global heavy-tier semaphore

loopVars == <<tl, agent_settings, agent_runs, heavy_slots>>

VARIABLES
    \* ---- the edge of the gateway: authentication (app/auth.py) ----
    auth_settings,  \* config.S: the bearer tokens, their policies, the IP allowlist
    auth_last,      \* the last request to a bearer-protected endpoint and its answer
    \* ---- embeddings (app/upstreams.py) ----
    embed_last,     \* the last embeddings call: its inputs, the upstream answers, its result
    \* ---- pass-through of an OpenAI-style stream, byte by byte ----
    pt_last,        \* the last passed-through stream: the upstream chunks and what was written
    \* ---- the background task of the health checker (app/health_checker.py) ----
    hc_up,          \* per backend: whether it answers 200 to every GET from now on
    hc_loop         \* HealthChecker._check_loop: its position and the probes not yet done

edgeVars == <<auth_settings, auth_last, embed_last, pt_last, hc_up, hc_loop>>

vars == <<streamVars, admitVars, routeVars, toolVars, loopVars, edgeVars>>

\* Upstream chunks delivered to one stream before it ends or fails.
MaxChunks == 2

(***************************************************************************)
(* SSE frames as the client sees them.                                     *)
(***************************************************************************)
\* openai_utils.sse_done(): the terminator `data: [DONE]\n\n`
sse_done == [type |-> "done"]

\* sse({"error": {...}}): the single error event of the streaming path
ErrorFrame == [type |-> "error"]

\* sse(chunk) of a chat.completion.chunk
ChunkFrame(role, content, finish) ==
    [type |-> "chunk", role |-> role, content |-> content, finish |-> finish]

\* the text_completion frame built in completions.gen
TextFrame(text, finish) == [type |-> "text", text |-> text, finish |-> finish]

\* What an OpenAI-style upstream writes: content frames and its own terminator.
MlxChunks == {ChunkFrame(FALSE, "x", "none"), ChunkFrame(FALSE, "", "stop"), sse_done}

\* What the NDJSON upstream writes: one JSON object per line, or a line that
\* does not parse.
OllamaLines ==
    {[ok |-> TRUE, content |-> c, done |-> d, done_reason |-> r] :
        c \in {"", "x"}, d \in BOOLEAN, r \in {"", "length"}}
    \cup {[ok |-> FALSE, content |-> "", done |-> FALSE, done_reason |-> ""]}

(***************************************************************************)
(* The two upstream generators.  Each operator gives what the generator    *)
(* yields on one upstream event and whether the generator is exhausted     *)
(* afterwards.                                                             *)
(***************************************************************************)
Yield(frames, ended) == [frames |-> frames, ended |-> ended]

\* stream_mlx_openai_chat: `async for chunk in r.aiter_bytes(): yield chunk`
stream_mlx_openai_chat(ev) ==
    CASE ev.kind = "chunk"         -> Yield(<<ev.chunk>>, FALSE)
      [] ev.kind = "end"           -> Yield(<<>>, TRUE)
      [] ev.kind = "status_error"  -> Yield(<<ErrorFrame, sse_done>>, TRUE)
      [] ev.kind = "request_error" -> Yield(<<ErrorFrame, sse_done>>, TRUE)
      [] ev.kind = "cancelled"     -> Yield(<<>>, TRUE)
      [] ev.kind = "aclosed"       -> Yield(<<>>, TRUE)

\* stream_ollama_chat_as_openai: one chunk per parsed line, a final chunk on
\* done=true, the error event on httpx errors, and `finally: yield sse_done()`.
stream_ollama_chat_as_openai(ev, role_sent) ==
    CASE ev.kind = "chunk" ->
            IF ~ev.chunk.ok
            THEN Yield(<<>>, FALSE)
            ELSE IF ev.chunk.done
                 THEN Yield(<<ChunkFrame(~role_sent, ev.chunk.content, "none"),
                              ChunkFrame(FALSE, "",
                                  IF ev.chunk.done_reason = "" THEN "stop"
                                  ELSE ev.chunk.done_reason),
                              sse_done>>, TRUE)
                 ELSE Yield(<<ChunkFrame(~role_sent, ev.chunk.content, "none")>>, FALSE)
      [] ev.kind = "end"           -> Yield(<<sse_done>>, TRUE)
      [] ev.kind = "status_error"  -> Yield(<<ErrorFrame, sse_done>>, TRUE)
      [] ev.kind = "request_error" -> Yield(<<ErrorFrame, sse_done>>, TRUE)
      \* asyncio.CancelledError raised in `r.aiter_lines()`: no except clause
      \* matches it, and the finally block yields the terminator
      [] ev.kind = "cancelled"     -> Yield(<<sse_done>>, TRUE)
      \* GeneratorExit thrown at a yield by aclose(): the yield in the finally
      \* block makes aclose() raise RuntimeError, and nothing is handed out
      [] ev.kind = "aclosed"       -> Yield(<<>>, TRUE)

\* completions.gen: the loop over the inner generator's frames.  st.closed
\* is set by `yield sse_done(); return`.
RECURSIVE completions_gen_loop(_, _)
completions_gen_loop(frames, st) ==
    IF frames = <<>> \/ st.closed THEN st
    ELSE LET f == Head(frames) IN
         completions_gen_loop(Tail(frames),
            IF f.type = "done"
            THEN [frames |-> Append(st.frames, sse_done), closed |-> TRUE]
            ELSE IF f.type = "chunk" /\ f.content # ""
                 THEN [frames |-> Append(st.frames, TextFrame(f.content, "none")),
                       closed |-> FALSE]
                 ELSE st)

\* completions.gen: after the inner generator is exhausted without a
\* terminator line, the final text frame and sse_done() are written.
completions_gen(inner) ==
    LET st == completions_gen_loop(inner.frames, [frames |-> <<>>, closed |-> FALSE])
    IN  IF st.closed THEN Yield(st.frames, TRUE)
        ELSE IF inner.cut THEN Yield(st.frames, TRUE)
        ELSE IF inner.ended
             THEN Yield(st.frames \o <<TextFrame("", "stop"), sse_done>>, TRUE)
             ELSE Yield(st.frames, FALSE)

\* The body iterator handed to StreamingResponse by the handler: the upstream
\* generator itself for chat_completions, gen() for completions.
ResponseBody(ev) ==
    LET inner == IF s_backend = "mlx" THEN stream_mlx_openai_chat(ev)
                 ELSE stream_ollama_chat_as_openai(ev, sent_role)
        \* an exception that leaves the inner generator also leaves gen()
        cut   == ev.kind \in {"cancelled", "aclosed"}
    IN  IF s_endpoint = "chat" THEN inner
        ELSE completions_gen([frames |-> inner.frames, ended |-> inner.ended,
                              cut |-> cut])

(***************************************************************************)
(* Actions of one streamed response.                                       *)
(***************************************************************************)
StreamInit ==
    /\ s_endpoint = "none"
    /\ s_backend = "mlx"
    /\ s_state = "idle"
    /\ s_up = <<>>
    /\ s_out = <<>>
    /\ sent_role = FALSE
    /\ s_conn = "none"
    /\ s_late = <<>>

\* chat_completions / completions with stream=true: build the generator.
StartStream ==
    /\ s_state = "idle"
    /\ \E e \in {"chat", "completions"}, b \in {"mlx", "ollama"} :
          /\ s_endpoint' = e
          /\ s_backend' = b
    /\ s_state' = "connecting"
    /\ s_conn' = "open"
    /\ UNCHANGED <<s_up, s_out, sent_role, s_late>>
    /\ UNCHANGED <<admitVars, routeVars, toolVars, loopVars, edgeVars>>

\* One upstream event reaches the generator; the frames it yields are written.
Deliver(ev) ==
    LET y == ResponseBody(ev) IN
    /\ s_up' = Append(s_up, ev)
    /\ s_out' = s_out \o y.frames
    /\ s_state' = IF y.ended THEN "closed"
                  ELSE "streaming"
    /\ sent_role' = (sent_role \/ (s_backend = "ollama" /\ ev.kind = "chunk" /\ ev.chunk.ok))
    \* leaving `async with client.stream(...)` closes the upstream response
    /\ s_conn' = IF y.ended THEN "closed" ELSE "open"
    /\ UNCHANGED <<s_endpoint, s_backend, s_late>>
    /\ UNCHANGED <<admitVars, routeVars, toolVars, loopVars, edgeVars>>

\* r.raise_for_status() raises httpx.HTTPStatusError (non-2xx answer).
UpstreamStatusError ==
    /\ s_state = "connecting"
    /\ Deliver([kind |-> "status_error"])

\* client.stream(...) or the body read raises httpx.RequestError.
UpstreamRequestError ==
    /\ s_state \in {"connecting", "streaming"}
    /\ Deliver([kind |-> "request_error"])

UpstreamSentDone ==
    \E i \in 1..Len(s_up) :
        /\ s_up[i].kind = "chunk"
        /\ IF s_backend = "mlx" THEN s_up[i].chunk = sse_done
           ELSE s_up[i].chunk.ok /\ s_up[i].chunk.done

\* The upstream answers 2xx and delivers one chunk (mlx) or one line (ollama).
UpstreamChunk ==
    /\ s_state \in {"connecting", "streaming"}
    /\ Len(s_up) < MaxChunks
    /\ ~UpstreamSentDone
    /\ \E c \in (IF s_backend = "mlx" THEN MlxChunks ELSE OllamaLines) :
          Deliver([kind |-> "chunk", chunk |-> c])

\* The upstream closes the body.
UpstreamEnd ==
    /\ s_state \in {"connecting", "streaming"}
    /\ Deliver([kind |-> "end"])

\* The client goes away in the middle of the stream and the server cancels
\* the response.  The generator is suspended either in its read from the
\* upstream (CancelledError is raised there) or, once it has handed out a
\* frame, at that yield (aclose() throws GeneratorExit there).
ClientDisconnect ==
    /\ s_state \in {"connecting", "streaming"}
    /\ \E k \in {"cancelled", "aclosed"} :
          /\ k = "aclosed" => s_out # <<>>
          /\ LET y == ResponseBody([kind |-> k]) IN
                /\ s_up' = Append(s_up, [kind |-> k])
                /\ s_late' = y.frames
    /\ s_state' = "cancelled"
    /\ s_conn' = "closed"
    /\ UNCHANGED <<s_endpoint, s_backend, s_out, sent_role>>
    /\ UNCHANGED <<admitVars, routeVars, toolVars, loopVars, edgeVars>>

StreamNext ==
    \/ StartStream
    \/ ClientDisconnect
    \/ UpstreamStatusError
    \/ UpstreamRequestError
    \/ UpstreamChunk
    \/ UpstreamEnd

(***************************************************************************)
(* Backend registry and admission controller (app.backends), as the        *)
(* handlers and tests use them.                                            *)
(***************************************************************************)
\* Requests handled concurrently.
NumReqs == 3

\* concurrency_limits of the registry entries.
MusicLimit == 1
ChatLimit == 2
ImagesLimit == 1

Reqs == 1..NumReqs

\* BackendRegistry.backends: the backend classes the handlers name.
Backends == {"gpu_fast", "local_mlx", "gpu_heavy", "heartmula_music"}

\* BackendConfig.supported_capabilities
supported_capabilities(bc) ==
    CASE bc = "gpu_fast"        -> {"chat"}
      [] bc = "local_mlx"       -> {"chat"}
      [] bc = "gpu_heavy"       -> {"images"}
      [] bc = "heartmula_music" -> {"music"}

\* One admission key per (backend_class, capability).
Keys == {<<bc, c>> : bc \in Backends, c \in {"chat", "images", "music"}}
            \cap {k \in Backends \X {"chat", "images", "music"} :
                    k[2] \in supported_capabilities(k[1])}

\* BackendConfig.concurrency_limits[capability]
concurrency_limits(k) ==
    CASE k[2] = "music"  -> MusicLimit
      [] k[2] = "images" -> ImagesLimit
      [] OTHER           -> ChatLimit

\* BackendRegistry.resolve_backend_class: legacy names of the router's backends.
resolve_backend_class(b) == IF b = "ollama" THEN "gpu_fast" ELSE "local_mlx"

\* AdmissionController.acquire: succeeds at once when a slot is free, raises
\* HTTPException(429, backend_overloaded, Retry-After: 5) when none is.
acquire(avail, k) ==
    IF avail[k] > 0
    THEN [ok |-> TRUE, available |-> [avail EXCEPT ![k] = @ - 1]]
    ELSE [ok |-> FALSE, available |-> avail]

\* AdmissionController.release: returns one slot of the bounded semaphore.
release(avail, k) ==
    [avail EXCEPT ![k] = IF @ < concurrency_limits(k) THEN @ + 1 ELSE @]

(***************************************************************************)
(* Health gate (app/health_checker.py).                                    *)
(***************************************************************************)
\* HealthStatus(backend_class, is_healthy, is_ready, last_check, error), and
\* with it the GETs of the probe that recorded it, in order, with their outcomes.
HealthStatus(healthy, ready, error, gets) ==
    [checked |-> TRUE, is_healthy |-> healthy, is_ready |-> ready, error |-> error,
     gets |-> gets]

\* client.get(f"{base_url}{path}") and how it ended
Get(path, outcome) == [path |-> path, outcome |-> outcome]

\* self._status.get(backend_class) of a backend no probe has recorded: None
NoStatus ==
    [checked |-> FALSE, is_healthy |-> FALSE, is_ready |-> FALSE, error |-> "none",
     gets |-> <<>>]

\* A probe that asks for readiness whatever the liveness GET said.
_check_backend_BothGets(live, ready) ==
    HealthStatus(live = "200", ready = "200",
                 IF ready = "exception" THEN "readiness check failed"
                 ELSE IF live = "exception" THEN "liveness check failed" ELSE "none",
                 <<Get("health_liveness", live), Get("health_readiness", ready)>>)

\* HealthChecker._check_backend: the status recorded for one probe, from the
\* outcomes of the liveness and the readiness GET.
_check_backend(live, ready) ==
    LET is_healthy == (live = "200")
        is_ready   == is_healthy /\ (ready = "200")
        error      == IF live = "exception" THEN "liveness check failed"
                      ELSE IF is_healthy /\ ready = "exception"
                           THEN "readiness check failed"
                           ELSE "none"
    IN  HealthStatus(is_healthy, is_ready, error,
                     <<Get("health_liveness", live)>>
                     \o (IF is_healthy THEN <<Get("health_readiness", ready)>> ELSE <<>>))

\* A checker that holds a backend not ready until a probe says otherwise.
is_ready_Pessimistic(bc) == _status[bc].checked /\ _status[bc].is_ready

\* HealthChecker.is_ready
is_ready(bc) ==
    IF ~_status[bc].checked THEN TRUE ELSE _status[bc].is_ready

\* check_backend_ready: TRUE when it returns, FALSE when it raises
\* HTTPException(503, backend_not_ready, Retry-After: 30).
check_backend_ready(bc) == is_ready(bc)

\* app.backends.check_capability: raises 400 when the backend lacks the capability.
check_capability(bc, cap) == cap \in supported_capabilities(bc)

(***************************************************************************)
(* Requests.                                                               *)
(***************************************************************************)
\* A request before its handler has run.
NewRequest ==
    [route |-> "none", pc |-> "new", backend_class |-> "none", capability |-> "none",
     held |-> 0, status |-> 0, retry_after |-> 0, error |-> "none", called |-> FALSE]

\* raise HTTPException(status_code, detail, headers={"Retry-After": ...})
Rejected(rec, code, err, retry) ==
    [rec EXCEPT !.pc = "done", !.status = code, !.error = err, !.retry_after = retry]

\* The key a handler acquires and releases for a request.
KeyOf(rec) == <<rec.backend_class, rec.capability>>

\* A gate that goes on to the upstream call when acquire found no free slot.
GateAndAcquire_IgnoresRejection(rec, nextpc) ==
    IF ~check_backend_ready(rec.backend_class)
    THEN [rec |-> Rejected(rec, 503, "backend_not_ready", 30), available |-> available]
    ELSE IF ~check_capability(rec.backend_class, rec.capability)
    THEN [rec |-> Rejected(rec, 400, "capability_not_supported", 0), available |-> available]
    ELSE LET a == acquire(available, KeyOf(rec)) IN
         IF a.ok
         THEN [rec |-> [rec EXCEPT !.pc = nextpc, !.held = @ + 1], available |-> a.available]
         ELSE [rec |-> [rec EXCEPT !.pc = nextpc], available |-> a.available]

\* The gate every admitted handler runs before its upstream call:
\*     check_backend_ready(backend_class); await check_capability(...)
\*     admission = get_admission_controller(); await admission.acquire(...)
\* Gives the request record and the controller's slots afterwards.
GateAndAcquire(rec, nextpc) ==
    IF ~check_backend_ready(rec.backend_class)
    THEN [rec |-> Rejected(rec, 503, "backend_not_ready", 30), available |-> available]
    ELSE IF ~check_capability(rec.backend_class, rec.capability)
    THEN [rec |-> Rejected(rec, 400, "capability_not_supported", 0), available |-> available]
    ELSE LET a == acquire(available, KeyOf(rec)) IN
         IF a.ok
         THEN [rec |-> [rec EXCEPT !.pc = nextpc, !.held = @ + 1], available |-> a.available]
         ELSE [rec |-> Rejected(rec, 429, "backend_overloaded", 5), available |-> a.available]

\* A finally clause that releases the slot twice.
FinallyRelease_Twice(rec, code) ==
    [rec |-> [rec EXCEPT !.pc = "done", !.status = code, !.held = @ - 1],
     available |-> release(release(available, KeyOf(rec)), KeyOf(rec))]

\* A finally clause that releases the chat slot whatever the request's key is.
FinallyRelease_WrongKey(rec, code) ==
    [rec |-> [rec EXCEPT !.pc = "done", !.status = code, !.held = @ - 1],
     available |-> release(available, <<"gpu_fast", "chat">>)]

\* `finally: admission.release(backend_class, capability)` of a handler.
FinallyRelease(rec, code) ==
    [rec |-> [rec EXCEPT !.pc = "done", !.status = code, !.held = @ - 1],
     available |-> release(available, KeyOf(rec))]

AdmitInit ==
    /\ available = [k \in Keys |-> concurrency_limits(k)]
    /\ _status = [bc \in Backends |-> NoStatus]
    /\ reqs = [r \in Reqs |-> NewRequest]

\* Requests are numbered in the order their handlers run.
IsNext(r) == reqs[r].pc = "new" /\ \A q \in Reqs : q < r => reqs[q].pc # "new"

Step(r, out) ==
    /\ reqs' = [reqs EXCEPT ![r] = out.rec]
    /\ available' = out.available
    /\ UNCHANGED <<_status, streamVars, routeVars, toolVars, loopVars, edgeVars>>

\* music_generations, up to the await of generate_music.
MusicStart(r) ==
    /\ IsNext(r)
    /\ \E valid \in BOOLEAN :
         LET rec == [reqs[r] EXCEPT !.route = "music",
                                   !.backend_class = "heartmula_music",
                                   !.capability = "music"] IN
         IF ~valid
         THEN Step(r, [rec |-> Rejected(rec, 400, "bad_request", 0), available |-> available])
         ELSE LET g == GateAndAcquire(rec, "upstream") IN
              Step(r, [g EXCEPT !.rec.called = (g.rec.pc = "upstream")])

\* music_generations: generate_music returns, raises, or the request is
\* cancelled while it waits; the finally clause runs in each case.
MusicFinish(r) ==
    /\ reqs[r].route = "music" /\ reqs[r].pc = "upstream"
    /\ \E code \in {200, 502, 499} : Step(r, FinallyRelease(reqs[r], code))

\* ui_chat, up to the await of the upstream call.
UiChatStart(r) ==
    /\ IsNext(r)
    /\ \E valid \in BOOLEAN, b \in {"ollama", "mlx"} :
         LET rec == [reqs[r] EXCEPT !.route = "ui_chat",
                                   !.backend_class = resolve_backend_class(b),
                                   !.capability = "chat"] IN
         IF ~valid
         THEN Step(r, [rec |-> Rejected([rec EXCEPT !.backend_class = "none"],
                                        400, "bad_request", 0),
                       available |-> available])
         ELSE LET g == GateAndAcquire(rec, "upstream") IN
              Step(r, [g EXCEPT !.rec.called = (g.rec.pc = "upstream")])

\* ui_chat: `try: resp = await call_...  finally: admission.release(...)`
UiChatFinish(r) ==
    /\ reqs[r].route = "ui_chat" /\ reqs[r].pc = "upstream"
    /\ \E code \in {200, 502, 499} : Step(r, FinallyRelease(reqs[r], code))

\* ui_chat_stream, up to `return out`: the slot is taken, the generator object
\* gen() is created and wrapped in a StreamingResponse; its body has not run.
UiChatStreamStart(r) ==
    /\ IsNext(r)
    /\ \E valid \in BOOLEAN, b \in {"ollama", "mlx"} :
         LET rec == [reqs[r] EXCEPT !.route = "ui_chat_stream",
                                   !.backend_class = resolve_backend_class(b),
                                   !.capability = "chat"] IN
         IF ~valid
         THEN Step(r, [rec |-> Rejected([rec EXCEPT !.backend_class = "none"],
                                        400, "bad_request", 0),
                       available |-> available])
         ELSE LET g == GateAndAcquire(rec, "response") IN
              Step(r, [g EXCEPT !.rec.status = IF g.rec.pc = "response" THEN 200 ELSE @])

\* The server advances gen() for the first time: the try block is entered and
\* the upstream generator is iterated.
UiStreamBodyStart(r) ==
    /\ reqs[r].route = "ui_chat_stream" /\ reqs[r].pc = "response"
    /\ Step(r, [rec |-> [reqs[r] EXCEPT !.pc = "streaming", !.called = TRUE],
                available |-> available])

\* gen() ends: the upstream is exhausted, the upstream raises, or the
\* generator is closed at a yield (client disconnect); `finally` releases.
UiStreamBodyEnd(r) ==
    /\ reqs[r].route = "ui_chat_stream" /\ reqs[r].pc = "streaming"
    /\ Step(r, FinallyRelease(reqs[r], 200))

\* The response is dropped before gen() was ever advanced (the client went
\* away before the body was sent): a generator that never started runs none of
\* its body, so its finally clause does not run either.
UiStreamNeverStarted(r) ==
    /\ reqs[r].route = "ui_chat_stream" /\ reqs[r].pc = "response"
    /\ Step(r, [rec |-> [reqs[r] EXCEPT !.pc = "done"], available |-> available])

\* images_generations, up to the await of generate_images: validation only.
ImagesStart(r) ==
    /\ IsNext(r)
    /\ \E valid \in BOOLEAN :
         LET rec == [reqs[r] EXCEPT !.route = "images",
                                   !.backend_class = "gpu_heavy",
                                   !.capability = "images"] IN
         IF ~valid
         THEN Step(r, [rec |-> Rejected(rec, 400, "bad_request", 0), available |-> available])
         ELSE Step(r, [rec |-> [rec EXCEPT !.pc = "upstream", !.called = TRUE],
                       available |-> available])

\* images_generations: generate_images returns, raises ValueError (400) or
\* anything else (502).
ImagesFinish(r) ==
    /\ reqs[r].route = "images" /\ reqs[r].pc = "upstream"
    /\ \E code \in {200, 400, 502} :
         Step(r, [rec |-> [reqs[r] EXCEPT !.pc = "done", !.status = code],
                  available |-> available])

\* HealthChecker._check_backend for one backend of the registry: both GETs
\* and the assignment `self._status[backend_class] = status`.
CheckBackend(bc) ==
    /\ \E live \in {"200", "non200", "exception"}, ready \in {"200", "non200", "exception"} :
          _status' = [_status EXCEPT ![bc] = _check_backend(live, ready)]
    /\ UNCHANGED <<available, reqs, streamVars, routeVars, toolVars, loopVars, edgeVars>>

AdmitNext ==
    \/ \E r \in Reqs : MusicStart(r)
    \/ \E r \in Reqs : MusicFinish(r)
    \/ \E r \in Reqs : UiChatStart(r)
    \/ \E r \in Reqs : UiChatFinish(r)
    \/ \E r \in Reqs : UiChatStreamStart(r)
    \/ \E r \in Reqs : UiStreamBodyStart(r)
    \/ \E r \in Reqs : UiStreamBodyEnd(r)
    \/ \E r \in Reqs : UiStreamNeverStarted(r)
    \/ \E r \in Reqs : ImagesStart(r)
    \/ \E r \in Reqs : ImagesFinish(r)

\* The health checker running next to one request.
HealthNext ==
    \/ \E bc \in Backends : CheckBackend(bc)
    \/ MusicStart(1)
    \/ MusicFinish(1)
    \/ UiChatStart(1)
    \/ UiChatFinish(1)
    \/ UiChatStreamStart(1)
    \/ UiStreamBodyStart(1)
    \/ UiStreamBodyEnd(1)
    \/ UiStreamNeverStarted(1)
    \/ ImagesStart(1)
    \/ ImagesFinish(1)

(***************************************************************************)
(* Router (app/router.py) and alias registry (app/model_aliases.py).       *)
(* Model names, alias keys and header values are strings; strip, lower and *)
(* startswith are computed on them character by character.                 *)
(***************************************************************************)
\* str.lower() on one character
LowerChar(c) ==
    CASE c = "A" -> "a" [] c = "B" -> "b" [] c = "C" -> "c" [] c = "D" -> "d"
      [] c = "E" -> "e" [] c = "F" -> "f" [] c = "G" -> "g" [] c = "H" -> "h"
      [] c = "I" -> "i" [] c = "J" -> "j" [] c = "K" -> "k" [] c = "L" -> "l"
      [] c = "M" -> "m" [] c = "N" -> "n" [] c = "O" -> "o" [] c = "P" -> "p"
      [] c = "Q" -> "q" [] c = "R" -> "r" [] c = "S" -> "s" [] c = "T" -> "t"
      [] c = "U" -> "u" [] c = "V" -> "v" [] c = "W" -> "w" [] c = "X" -> "x"
      [] c = "Y" -> "y" [] c = "Z" -> "z" [] OTHER -> c

\* str.lower()
RECURSIVE lower(_)
lower(str) ==
    IF Len(str) = 0 THEN ""
    ELSE LowerChar(SubSeq(str, 1, 1)) \o lower(SubSeq(str, 2, Len(str)))

RECURSIVE lstrip(_)
lstrip(str) ==
    IF Len(str) > 0 /\ SubSeq(str, 1, 1) = " " THEN lstrip(SubSeq(str, 2, Len(str))) ELSE str

RECURSIVE rstrip(_)
rstrip(str) ==
    IF Len(str) > 0 /\ SubSeq(str, Len(str), Len(str)) = " "
    THEN rstrip(SubSeq(str, 1, Len(str) - 1)) ELSE str

\* str.strip()
strip(str) == rstrip(lstrip(str))

\* str.startswith(prefix)
startswith(str, prefix) ==
    Len(str) >= Len(prefix) /\ SubSeq(str, 1, Len(prefix)) = prefix

\* str[len(prefix):]
after(str, prefix) == SubSeq(str, Len(prefix) + 1, Len(str))

\* config.S: the router's settings
DEFAULT_BACKEND == "ollama"
OLLAMA_MODEL_STRONG == "qwen2.5:32b"
OLLAMA_MODEL_FAST == "qwen2.5:7b"
MLX_MODEL_STRONG == "mlx-community/gemma-2-2b-it-8bit"
MLX_MODEL_FAST == "mlx-community/gemma-2-2b-it-8bit"
ROUTER_LONG_CONTEXT_CHARS == 40000

\* router_cfg(): the RouterConfig built from the settings
router_cfg ==
    [default_backend |-> DEFAULT_BACKEND,
     ollama_strong_model |-> OLLAMA_MODEL_STRONG,
     ollama_fast_model |-> OLLAMA_MODEL_FAST,
     mlx_strong_model |-> MLX_MODEL_STRONG,
     mlx_fast_model |-> MLX_MODEL_FAST,
     long_context_chars_threshold |-> ROUTER_LONG_CONTEXT_CHARS]

\* ModelAlias(backend, upstream_model, context_window, tools); context_window 0
\* stands for None (both are falsy where it is read), tools is "None", "True"
\* or "False".
ModelAlias(backend, upstream_model, context_window, tools) ==
    [backend |-> backend, upstream_model |-> upstream_model,
     context_window |-> context_window, tools |-> tools]

strong_for(backend) == IF backend = "ollama" THEN OLLAMA_MODEL_STRONG ELSE MLX_MODEL_STRONG
fast_for(backend) == IF backend = "ollama" THEN OLLAMA_MODEL_FAST ELSE MLX_MODEL_FAST

_default_aliases ==
    ( "default" :> ModelAlias(DEFAULT_BACKEND, strong_for(DEFAULT_BACKEND), 0, "True")
   @@ "fast"    :> ModelAlias(DEFAULT_BACKEND, fast_for(DEFAULT_BACKEND), 0, "False")
   @@ "coder"   :> ModelAlias("ollama", OLLAMA_MODEL_STRONG, 0, "True")
   @@ "long"    :> ModelAlias("mlx", MLX_MODEL_STRONG, ROUTER_LONG_CONTEXT_CHARS, "False") )

\* A value of the alias payload: a string ("ollama:qwen3:30b") or an object
\* {"backend", "model", "context", "tools"}; tools "None" when the key is
\* absent or not a boolean, context 0 when absent.
StrValue(str) ==
    [kind |-> "str", str |-> str, backend |-> "", model |-> "", context |-> 0, tools |-> "None"]
DictValue(backend, model, context, tools) ==
    [kind |-> "dict", str |-> "", backend |-> backend, model |-> model,
     context |-> context, tools |-> tools]

\* _parse_alias_value: the set holding the parsed alias, empty for None.
_parse_alias_value(v) ==
    IF v.kind = "str"
    THEN LET str == strip(v.str) IN
         IF Len(str) = 0 THEN {}
         ELSE IF startswith(str, "ollama:")
              THEN {ModelAlias("ollama", after(str, "ollama:"), 0, "None")}
         ELSE IF startswith(str, "mlx:")
              THEN {ModelAlias("mlx", after(str, "mlx:"), 0, "None")}
         ELSE {}
    ELSE LET backend == lower(strip(v.backend))
             m0      == strip(v.model)
             model   == IF startswith(m0, "ollama:") THEN after(m0, "ollama:")
                        ELSE IF startswith(m0, "mlx:") THEN after(m0, "mlx:")
                        ELSE m0
             context_window == IF v.context > 0 THEN v.context ELSE 0
         IN  IF backend \notin {"ollama", "mlx"} \/ Len(m0) = 0 THEN {}
             ELSE {ModelAlias(backend, model, context_window, v.tools)}

\* load_aliases: the defaults, overridden and extended by the payload's
\* entries that parse.  payload is a function from keys to values, the empty
\* function when no JSON is configured or it does not parse.
load_aliases(payload) ==
    LET parsed == {k \in DOMAIN payload : _parse_alias_value(payload[k]) # {}}
        keys   == {lower(strip(k)) : k \in parsed}
        from(key) == CHOOSE k \in parsed : lower(strip(k)) = key
    IN  [key \in (DOMAIN _default_aliases) \cup keys |->
            IF key \in keys
            THEN CHOOSE a \in _parse_alias_value(payload[from(key)]) : TRUE
            ELSE _default_aliases[key]]

\* _ALIASES_CACHE is None
NoCache == [loaded |-> FALSE, table |-> <<>>]

\* A get_aliases that reads the payload again on every call.
get_aliases_Reload(cache, payload) == load_aliases(payload)

\* get_aliases: the table of this call; loaded from the payload only when the
\* cache is None.
get_aliases(cache, payload) ==
    IF ~cache.loaded THEN load_aliases(payload) ELSE cache.table

\* messages: one record per message, holding what _approx_text_size reads of
\* its content: a str of n characters, None, or another JSON value whose
\* json.dumps has n characters.
StrContent(n) == [kind |-> "str", n |-> n]
NoContent == [kind |-> "none", n |-> 0]
JsonContent(n) == [kind |-> "json", n |-> n]

\* A size estimate that counts str contents only.
RECURSIVE _approx_text_size_StrOnly(_)
_approx_text_size_StrOnly(messages) ==
    IF messages = <<>> THEN 0
    ELSE (IF Head(messages).kind = "str" THEN Head(messages).n ELSE 0)
         + _approx_text_size_StrOnly(Tail(messages))

RECURSIVE _approx_text_size(_)
_approx_text_size(messages) ==
    IF messages = <<>> THEN 0
    ELSE (IF Head(messages).kind = "none" THEN 0 ELSE Head(messages).n)
         + _approx_text_size(Tail(messages))

_choose_backend_by_model(model, default_backend) ==
    LET m == lower(strip(model)) IN
    IF startswith(m, "ollama:") THEN "ollama"
    ELSE IF startswith(m, "mlx:") THEN "mlx"
    ELSE IF m \in {"ollama", "ollama-default"} THEN "ollama"
    ELSE IF m \in {"mlx", "mlx-default"} THEN "mlx"
    ELSE default_backend

_normalize_model(model, backend, cfg) ==
    LET m == strip(model) IN
    IF backend = "ollama"
    THEN LET m1 == IF startswith(m, "ollama:") THEN after(m, "ollama:") ELSE m IN
         IF m1 \in {"default", "ollama", ""} THEN cfg.ollama_strong_model ELSE m1
    ELSE LET m1 == IF startswith(m, "mlx:") THEN after(m, "mlx:") ELSE m IN
         IF m1 \in {"default", "mlx", ""} THEN cfg.mlx_strong_model ELSE m1

RouteDecision(backend, model, reason) ==
    [backend |-> backend, model |-> model, reason |-> reason]

\* headers.get(name) or ""
HeaderOr(headers, name) == IF name \in DOMAIN headers THEN headers[name] ELSE ""

\* A router that looks at has_tools before it looks at the alias table.
decide_route_ToolsBeforeAlias(aliases, cfg, request_model, headers, messages, has_tools) ==
    LET hdr_backend == lower(strip(HeaderOr(headers, "x-backend")))
        alias_key   == lower(strip(request_model))
    IN
    IF hdr_backend \in {"ollama", "mlx"}
    THEN RouteDecision(hdr_backend, _normalize_model(request_model, hdr_backend, cfg),
                       "override:x-backend")
    ELSE IF has_tools
    THEN RouteDecision(aliases["default"].backend, aliases["default"].upstream_model,
                       "policy:tools->alias:default")
    ELSE IF alias_key # "" /\ alias_key \in DOMAIN aliases
    THEN RouteDecision(aliases[alias_key].backend, aliases[alias_key].upstream_model,
                       "alias:model")
    ELSE RouteDecision(cfg.default_backend, strip(request_model), "policy:fast")

\* A router whose tools rule takes alias default without asking whether the
\* alias allows tools.
decide_route_ToolsIgnoreAllow(aliases, cfg, request_model, headers, messages, has_tools) ==
    LET hdr_backend == lower(strip(HeaderOr(headers, "x-backend")))
        alias_key   == lower(strip(request_model))
    IN
    IF hdr_backend \in {"ollama", "mlx"}
    THEN RouteDecision(hdr_backend, _normalize_model(request_model, hdr_backend, cfg),
                       "override:x-backend")
    ELSE IF alias_key # "" /\ alias_key \in DOMAIN aliases
    THEN RouteDecision(aliases[alias_key].backend, aliases[alias_key].upstream_model,
                       "alias:model")
    ELSE IF has_tools
    THEN RouteDecision(aliases["default"].backend, aliases["default"].upstream_model,
                       "policy:tools->alias:default")
    ELSE RouteDecision(cfg.default_backend, strip(request_model), "policy:fast")

\* A router that applies the long-context rule before the alias table.
decide_route_LongBeforeAlias(aliases, cfg, request_model, headers, messages, has_tools) ==
    LET hdr_backend == lower(strip(HeaderOr(headers, "x-backend")))
        alias_key   == lower(strip(request_model))
        long_threshold ==
            IF aliases["long"].context_window # 0 THEN aliases["long"].context_window
            ELSE cfg.long_context_chars_threshold
    IN
    IF hdr_backend \in {"ollama", "mlx"}
    THEN RouteDecision(hdr_backend, _normalize_model(request_model, hdr_backend, cfg),
                       "override:x-backend")
    ELSE IF ~has_tools /\ _approx_text_size(messages) >= long_threshold
    THEN RouteDecision(aliases["long"].backend, aliases["long"].upstream_model,
                       "policy:long_context->alias:long")
    ELSE IF alias_key # "" /\ alias_key \in DOMAIN aliases
    THEN RouteDecision(aliases[alias_key].backend, aliases[alias_key].upstream_model,
                       "alias:model")
    ELSE RouteDecision(cfg.default_backend, strip(request_model), "policy:fast")

\* decide_route, with the table get_aliases() returns during the call.
decide_route(aliases, cfg, request_model, headers, messages, has_tools) ==
    LET hdr_backend == lower(strip(HeaderOr(headers, "x-backend")))
        alias_key   == lower(strip(request_model))
        backend     == _choose_backend_by_model(request_model, cfg.default_backend)
        explicitly_pinned ==
            \/ startswith(alias_key, "ollama:") \/ startswith(alias_key, "mlx:")
            \/ alias_key \in {"ollama", "mlx", "ollama-default", "mlx-default"}
        size == _approx_text_size(messages)
        long_threshold ==
            IF "long" \in DOMAIN aliases /\ aliases["long"].context_window # 0
            THEN aliases["long"].context_window
            ELSE cfg.long_context_chars_threshold
        ViaAlias(name, reason) ==
            RouteDecision(aliases[name].backend,
                          _normalize_model(aliases[name].upstream_model,
                                           aliases[name].backend, cfg),
                          reason)
        strong == IF backend = "ollama" THEN cfg.ollama_strong_model
                  ELSE cfg.mlx_strong_model
    IN
    IF hdr_backend \in {"ollama", "mlx"}
    THEN RouteDecision(hdr_backend, _normalize_model(request_model, hdr_backend, cfg),
                       "override:x-backend")
    ELSE IF alias_key # "" /\ alias_key \in DOMAIN aliases
    THEN ViaAlias(alias_key, "alias:model")
    ELSE IF explicitly_pinned
    THEN RouteDecision(backend, _normalize_model(request_model, backend, cfg), "pinned:model")
    ELSE IF has_tools
    THEN IF "default" \in DOMAIN aliases /\ aliases["default"].tools # "False"
         THEN ViaAlias("default", "policy:tools->alias:default")
         ELSE IF "coder" \in DOMAIN aliases /\ aliases["coder"].tools # "False"
         THEN ViaAlias("coder", "policy:tools->alias:coder")
         ELSE RouteDecision(backend, strong, "policy:tools->strong")
    ELSE IF size >= long_threshold
    THEN IF "long" \in DOMAIN aliases
         THEN ViaAlias("long", "policy:long_context->alias:long")
         ELSE IF cfg.mlx_strong_model # ""
         THEN RouteDecision("mlx", cfg.mlx_strong_model, "policy:long_context->mlx")
         ELSE RouteDecision(backend, strong, "policy:long_context->strong")
    ELSE IF "fast" \in DOMAIN aliases
         THEN ViaAlias("fast", "policy:fast->alias:fast")
         ELSE RouteDecision(backend,
                            IF backend = "ollama" THEN cfg.ollama_fast_model
                            ELSE cfg.mlx_fast_model,
                            "policy:fast")

(***************************************************************************)
(* POST /v1/chat/completions and POST /v1/completions                      *)
(* (app/openai_routes.py).                                                 *)
(***************************************************************************)
AliasNameChars ==
    {"a", "b", "c", "d", "e", "f", "g", "h", "i", "j", "k", "l", "m", "n", "o", "p", "q",
     "r", "s", "t", "u", "v", "w", "x", "y", "z", "0", "1", "2", "3", "4", "5", "6", "7",
     "8", "9", "_", "-"}

\* The longest prefix of str made of alias-name characters.
RECURSIVE NameRun(_)
NameRun(str) ==
    IF Len(str) > 0 /\ LowerChar(SubSeq(str, 1, 1)) \in AliasNameChars
    THEN SubSeq(str, 1, 1) \o NameRun(SubSeq(str, 2, Len(str)))
    ELSE ""

\* _ALIAS_IN_REASON.search(reason): group 1 of the first match of
\* alias:([a-z0-9_\-]+), "" when there is none.
RECURSIVE _ALIAS_IN_REASON(_)
_ALIAS_IN_REASON(reason) ==
    IF Len(reason) = 0 THEN ""
    ELSE IF startswith(reason, "alias:") /\ NameRun(after(reason, "alias:")) # ""
         THEN NameRun(after(reason, "alias:"))
         ELSE _ALIAS_IN_REASON(SubSeq(reason, 2, Len(reason)))

\* _selected_alias_name, "" for None.
_selected_alias_name(aliases, request_model, route_reason) ==
    LET key  == lower(strip(request_model))
        cand == lower(strip(_ALIAS_IN_REASON(route_reason)))
    IN  IF key # "" /\ key \in DOMAIN aliases THEN key
        ELSE IF cand # "" /\ cand \in DOMAIN aliases THEN cand
        ELSE ""

\* _apply_alias_constraints without the allow_tools test.
_apply_alias_constraints_NoToolsTest(aliases, has_tools, alias_name) == TRUE

\* _apply_alias_constraints: TRUE when it returns, FALSE when it raises
\* HTTPException(400, "tools not allowed for model alias ...").
_apply_alias_constraints(aliases, has_tools, alias_name) ==
    ~(alias_name # "" /\ alias_name \in DOMAIN aliases
        /\ has_tools /\ aliases[alias_name].tools = "False")

NoRoute == RouteDecision("", "", "")

\* No request has been handled yet.
NoRequest ==
    [endpoint |-> "none", pc |-> "idle", request_model |-> "", headers |-> <<>>,
     messages |-> <<>>, has_tools |-> FALSE, stream |-> FALSE,
     decided |-> FALSE, route |-> NoRoute, status |-> 0, resp_headers |-> <<>>]

NoSeen == [valid |-> FALSE, request_model |-> "", headers |-> <<>>, messages |-> <<>>,
           has_tools |-> FALSE, route |-> NoRoute]

\* out.headers[...] = ... of a routed response
RoutedHeaders(route) ==
    ( "X-Backend-Used" :> route.backend @@ "X-Model-Used" :> route.model
      @@ "X-Router-Reason" :> route.reason )

\* The deployments the gateway is started with: the two router flags and the
\* alias payload.
NoPayload == <<>>

PayloadDefaultNoTools ==
    ( "default" :> DictValue("ollama", "qwen2.5:32b", 0, "False")
   @@ "long"    :> DictValue("mlx", "long-model", 30000, "None")
   @@ " Qwen "  :> StrValue("mlx:qwen3-8b") )

PayloadNoToolAliases ==
    ( "default" :> DictValue("ollama", "qwen2.5:32b", 0, "False")
   @@ "coder"   :> DictValue(" MLX ", "mlx:coder-model", 0, "False")
   @@ "long"    :> StrValue("mlx:long-model")
   @@ "broken"  :> StrValue("qwen3:8b") )

Payloads == {NoPayload, PayloadDefaultNoTools, PayloadNoToolAliases}

Flags(enable_policy, enable_request_type) ==
    [ROUTER_ENABLE_POLICY |-> enable_policy,
     ROUTER_ENABLE_REQUEST_TYPE |-> enable_request_type]

Deployments ==
    { [settings |-> Flags(FALSE, FALSE), payload |-> NoPayload],
      [settings |-> Flags(TRUE, TRUE),   payload |-> NoPayload],
      [settings |-> Flags(TRUE, FALSE),  payload |-> PayloadDefaultNoTools],
      [settings |-> Flags(TRUE, TRUE),   payload |-> PayloadNoToolAliases] }

RequestModels ==
    {"coder", " Fast ", "default", "auto", "qwen3:8b", "mlx:abc", "ollama:default",
     "mlx-default"}

RequestHeaders ==
    { <<>>, ("x-backend" :> " MLX "), ("x-backend" :> "cloud"),
      ("x-request-type" :> "coding") }

ChatMessages ==
    { <<>>, <<StrContent(2)>>, <<StrContent(39999)>>, <<StrContent(45000)>>,
      <<StrContent(20000), NoContent, JsonContent(20000)>> }

ChatInputs ==
    [request_model : RequestModels, headers : RequestHeaders, messages : ChatMessages,
     has_tools : BOOLEAN, stream : BOOLEAN]

\* The prompt of a completion request: a string of n characters, a list of
\* strings of the given lengths, or something else.
StrPrompt(n) == [kind |-> "str", parts |-> <<n>>]
ListPrompt(parts) == [kind |-> "list", parts |-> parts]
BadPrompt == [kind |-> "other", parts |-> <<>>]

\* len("\n".join(parts))
RECURSIVE JoinedLen(_)
JoinedLen(parts) ==
    IF parts = <<>> THEN 0
    ELSE IF Len(parts) = 1 THEN parts[1]
    ELSE parts[1] + 1 + JoinedLen(Tail(parts))

CompletionInputs ==
    [request_model : RequestModels, headers : RequestHeaders,
     prompt : {StrPrompt(2), ListPrompt(<<20000, 19999>>)}, stream : BOOLEAN]
    \cup [request_model : {"auto"}, headers : {<<>>}, prompt : {BadPrompt}, stream : {FALSE}]

RouteInit ==
    /\ settings = Flags(FALSE, FALSE)
    /\ alias_source = NoPayload
    /\ _ALIASES_CACHE = NoCache
    /\ rq = NoRequest
    /\ seen = NoSeen

\* The gateway is (re)started with a deployment: a new process, nothing cached.
Restart(d) ==
    /\ settings' = d.settings
    /\ alias_source' = d.payload
    /\ _ALIASES_CACHE' = NoCache
    /\ rq' = NoRequest
    /\ seen' = NoSeen
    /\ UNCHANGED <<streamVars, admitVars, toolVars, loopVars, edgeVars>>

\* The alias JSON is edited while the gateway runs.
AliasSourceChanges(payload) ==
    /\ payload # alias_source
    /\ alias_source' = payload
    /\ UNCHANGED <<settings, _ALIASES_CACHE, rq, seen, streamVars, admitVars, toolVars, loopVars, edgeVars>>

\* raise HTTPException(status_code=...): the response carries no routing headers.
HttpError(req, code) == [req EXCEPT !.pc = "done", !.status = code, !.resp_headers = <<>>]

\* The response `out` with the three routing headers set.
RoutedResponse(req) ==
    [req EXCEPT !.pc = "done", !.status = 200, !.resp_headers = RoutedHeaders(req.route)]

\* A handler that streams whatever tools the request carries.
stream_and_tools_Never(stream, has_tools) == FALSE

\* chat_completions: `if cc.stream and cc.tools`
stream_and_tools(stream, has_tools) == stream /\ has_tools

\* chat_completions up to its first await of the upstream, or to its return
\* when it raises or streams.
ChatCompletions(inp) ==
    /\ rq.pc = "idle"
    /\ LET aliases == get_aliases(_ALIASES_CACHE, alias_source)
           route   == decide_route(aliases, router_cfg, inp.request_model, inp.headers,
                                   inp.messages, inp.has_tools)
           alias_name == _selected_alias_name(aliases, inp.request_model, route.reason)
           req == [NoRequest EXCEPT !.endpoint = "chat",
                                    !.request_model = inp.request_model,
                                    !.headers = inp.headers,
                                    !.messages = inp.messages,
                                    !.has_tools = inp.has_tools,
                                    !.stream = inp.stream,
                                    !.decided = TRUE,
                                    !.route = route]
       IN  /\ _ALIASES_CACHE' = [loaded |-> TRUE, table |-> aliases]
           /\ rq' = IF ~_apply_alias_constraints(aliases, inp.has_tools, alias_name)
                    THEN HttpError(req, 400)
                    ELSE IF stream_and_tools(inp.stream, inp.has_tools)
                    THEN HttpError(req, 400)
                    ELSE IF inp.stream THEN RoutedResponse(req)
                    ELSE [req EXCEPT !.pc = "upstream"]
    /\ UNCHANGED <<settings, alias_source, seen, streamVars, admitVars, toolVars, loopVars, edgeVars>>

\* completions up to its first await of the upstream, or to its return when
\* it raises or streams.
Completions(inp) ==
    /\ rq.pc = "idle"
    /\ IF inp.prompt.kind \notin {"str", "list"}
       THEN /\ rq' = HttpError([NoRequest EXCEPT !.endpoint = "completions",
                                                 !.request_model = inp.request_model,
                                                 !.headers = inp.headers], 400)
            /\ UNCHANGED _ALIASES_CACHE
       ELSE LET messages == <<StrContent(JoinedLen(inp.prompt.parts))>>
                aliases  == get_aliases(_ALIASES_CACHE, alias_source)
                route    == decide_route(aliases, router_cfg, inp.request_model,
                                         inp.headers, messages, FALSE)
                alias_name == _selected_alias_name(aliases, inp.request_model, route.reason)
                req == [NoRequest EXCEPT !.endpoint = "completions",
                                         !.request_model = inp.request_model,
                                         !.headers = inp.headers,
                                         !.messages = messages,
                                         !.stream = inp.stream,
                                         !.decided = TRUE,
                                         !.route = route]
            IN  /\ _ALIASES_CACHE' = [loaded |-> TRUE, table |-> aliases]
                /\ rq' = IF ~_apply_alias_constraints(aliases, FALSE, alias_name)
                         THEN HttpError(req, 400)
                         ELSE IF inp.stream THEN RoutedResponse(req)
                         ELSE [req EXCEPT !.pc = "upstream"]
    /\ UNCHANGED <<settings, alias_source, seen, streamVars, admitVars, toolVars, loopVars, edgeVars>>

\* The awaited upstream call (or tool loop) returns: JSONResponse with headers.
UpstreamReturns ==
    /\ rq.pc = "upstream"
    /\ rq' = RoutedResponse(rq)
    /\ UNCHANGED <<settings, alias_source, _ALIASES_CACHE, seen, streamVars, admitVars, toolVars, loopVars, edgeVars>>

\* The awaited upstream call raises HTTPException(502).
UpstreamFails ==
    /\ rq.pc = "upstream"
    /\ rq' = HttpError(rq, 502)
    /\ UNCHANGED <<settings, alias_source, _ALIASES_CACHE, seen, streamVars, admitVars, toolVars, loopVars, edgeVars>>

\* The response has been written to the client; the handler is free again.
ResponseSent ==
    /\ rq.pc = "done"
    /\ rq' = NoRequest
    /\ UNCHANGED <<settings, alias_source, _ALIASES_CACHE, seen, streamVars, admitVars, toolVars, loopVars, edgeVars>>

\* A call of decide_route is kept for comparison with later calls.
Remember ==
    /\ rq.decided
    /\ seen' = [valid |-> TRUE, request_model |-> rq.request_model, headers |-> rq.headers,
                messages |-> rq.messages, has_tools |-> rq.has_tools, route |-> rq.route]
    /\ seen' # seen
    /\ UNCHANGED <<settings, alias_source, _ALIASES_CACHE, rq, streamVars, admitVars, toolVars, loopVars, edgeVars>>

RouteNext ==
    \/ \E d \in Deployments : Restart(d)
    \/ \E inp \in ChatInputs : ChatCompletions(inp)
    \/ \E inp \in CompletionInputs : Completions(inp)
    \/ UpstreamReturns
    \/ UpstreamFails
    \/ ResponseSent

\* The calls whose results are compared across alias edits.
PureChatInputs ==
    [request_model : {"coder", "auto", " Qwen"}, headers : {<<>>, ("x-backend" :> " MLX ")},
     messages : {<<StrContent(2)>>, <<StrContent(45000)>>},
     has_tools : BOOLEAN, stream : {TRUE}]

PureCompletionInputs ==
    [request_model : {"default", "long"}, headers : {<<>>},
     prompt : {StrPrompt(2)}, stream : {FALSE}]

PureNext ==
    \/ \E d \in Deployments : Restart(d)
    \/ \E payload \in Payloads : AliasSourceChanges(payload)
    \/ \E inp \in PureChatInputs : ChatCompletions(inp)
    \/ \E inp \in PureCompletionInputs : Completions(inp)
    \/ UpstreamReturns
    \/ UpstreamFails
    \/ ResponseSent
    \/ Remember

(***************************************************************************)
(* The tool bus (app/tools_bus.py): the tool schemas, the validation of    *)
(* the arguments, the allowlist, and the two POST handlers around          *)
(* _execute_tool.                                                          *)
(***************************************************************************)

\* JSON values as the handlers see them after req.json(): the Python type of
\* the value and what it holds. A dict holds a function from its keys.
JStr(s) == [type |-> "str", val |-> s]
JInt(n) == [type |-> "int", val |-> n]
JList(items) == [type |-> "list", val |-> items]
JDict(d) == [type |-> "dict", val |-> d]
JNone == [type |-> "NoneType", val |-> <<>>]

\* isinstance(v, t)
isinstance(v, t) == v.type = t

\* A property schema: its "type" and, for arrays, the "type" of its "items".
StringSchema == [type |-> "string", items |-> "None", enum |-> <<>>, additionalProperties |-> "None"]
StringEnumSchema(enum) == [type |-> "string", items |-> "None", enum |-> enum, additionalProperties |-> "None"]
ArrayOfStringsSchema == [type |-> "array", items |-> "string", enum |-> <<>>, additionalProperties |-> "None"]
ObjectOfStringsSchema == [type |-> "object", items |-> "None", enum |-> <<>>, additionalProperties |-> "string"]

\* A "parameters" schema; properties keeps the order of the dict literal.
Parameters(properties, required) ==
    [type |-> "object", properties |-> properties, required |-> required,
     additionalProperties |-> "False"]

Property(key, sch) == [key |-> key, sch |-> sch]

\* TOOL_SCHEMAS[name]["parameters"]
TOOL_SCHEMAS ==
    ("shell" :> Parameters(<<Property("cmd", StringSchema)>>, <<"cmd">>))
    @@ ("read_file" :> Parameters(<<Property("path", StringSchema)>>, <<"path">>))
    @@ ("write_file" :> Parameters(<<Property("path", StringSchema),
                                     Property("content", StringSchema)>>,
                                   <<"path", "content">>))
    @@ ("git" :> Parameters(<<Property("args", ArrayOfStringsSchema)>>, <<"args">>))
    @@ ("http_fetch" :> Parameters(<<Property("url", StringSchema),
                                     Property("method", StringEnumSchema(<<"GET">>)),
                                     Property("headers", ObjectOfStringsSchema)>>,
                                   <<"url">>))

\* The keys of TOOL_IMPL
TOOL_IMPL == {"shell", "read_file", "write_file", "http_fetch", "git"}

\* The characters of field names in code point order.
CodePoints == "0123456789ABCDEFGHIJKLMNOPQRSTUVWXYZ_abcdefghijklmnopqrstuvwxyz"

\* ord(c), up to the order it gives
ord(c) == CHOOSE i \in 1..Len(CodePoints) : SubSeq(CodePoints, i, i) = c

\* a < b for two str
RECURSIVE str_lt(_, _)
str_lt(a, b) ==
    IF Len(b) = 0 THEN FALSE
    ELSE IF Len(a) = 0 THEN TRUE
    ELSE LET x == ord(SubSeq(a, 1, 1))
             y == ord(SubSeq(b, 1, 1))
         IN  x < y \/ (x = y /\ str_lt(SubSeq(a, 2, Len(a)), SubSeq(b, 2, Len(b))))

\* sorted(keys)
RECURSIVE sorted(_)
sorted(keys) ==
    IF keys = {} THEN <<>>
    ELSE LET m == CHOOSE k \in keys : \A other \in keys : other = k \/ str_lt(k, other)
         IN  <<m>> \o sorted(keys \ {m})

\* for k in required: if k not in args: errs.append(...)
RECURSIVE missing_required(_, _)
missing_required(required, args) ==
    IF required = <<>> THEN <<>>
    ELSE (IF Head(required) \in DOMAIN args THEN <<>>
          ELSE <<"missing required field: " \o Head(required)>>)
         \o missing_required(Tail(required), args)

\* for k in extra: errs.append(...)
RECURSIVE unexpected(_)
unexpected(extra) ==
    IF extra = <<>> THEN <<>>
    ELSE <<"unexpected field: " \o Head(extra)>> \o unexpected(Tail(extra))

\* The branch on sch["type"] for one property that is in args.
type_issue(key, sch, v) ==
    IF sch.type = "string"
    THEN IF ~isinstance(v, "str") THEN <<key \o " must be a string">> ELSE <<>>
    ELSE IF sch.type = "array"
    THEN IF ~isinstance(v, "list") THEN <<key \o " must be an array">>
         ELSE IF sch.items = "string" /\ ~(\A i \in DOMAIN v.val : isinstance(v.val[i], "str"))
         THEN <<key \o " items must be strings">>
         ELSE <<>>
    ELSE IF sch.type = "object"
    THEN IF ~isinstance(v, "dict") THEN <<key \o " must be an object">> ELSE <<>>
    ELSE <<>>

\* for key, sch in props.items(): ...
RECURSIVE type_issues(_, _)
type_issues(props, args) ==
    IF props = <<>> THEN <<>>
    ELSE (IF Head(props).key \notin DOMAIN args THEN <<>>
          ELSE type_issue(Head(props).key, Head(props).sch, args[Head(props).key]))
         \o type_issues(Tail(props), args)

\* _validate_against_schema(params_schema, args): the list of issues
_validate_against_schema(params_schema, args) ==
    IF ~isinstance(args, "dict") THEN <<"arguments must be a JSON object">>
    ELSE IF params_schema.type # "object" THEN <<>>
    ELSE LET props    == params_schema.properties
             allowed  == {props[i].key : i \in DOMAIN props}
             extra    == sorted({k \in DOMAIN args.val : k \notin allowed})
         IN  missing_required(params_schema.required, args.val)
             \o (IF params_schema.additionalProperties = "False" THEN unexpected(extra) ELSE <<>>)
             \o type_issues(props, args.val)

\* str.split(sep) for a separator of one character
RECURSIVE split(_, _)
split(str, sep) ==
    IF \A i \in 1..Len(str) : SubSeq(str, i, i) # sep THEN <<str>>
    ELSE LET i == CHOOSE i \in 1..Len(str) :
                      /\ SubSeq(str, i, i) = sep
                      /\ \A j \in 1..(i - 1) : SubSeq(str, j, j) # sep
         IN  <<SubSeq(str, 1, i - 1)>> \o split(SubSeq(str, i + 1, Len(str)), sep)

\* config.S: the settings the tool bus reads
\* with the defaults of the tools' own settings
ToolSettings(allowlist, shell, fs, http_fetch, git) ==
    [TOOLS_ALLOWLIST |-> allowlist, TOOLS_ALLOW_SHELL |-> shell, TOOLS_ALLOW_FS |-> fs,
     TOOLS_ALLOW_HTTP_FETCH |-> http_fetch, TOOLS_ALLOW_GIT |-> git,
     TOOLS_SHELL_ALLOWED_CMDS |-> "", TOOLS_FS_ROOTS |-> "/var/lib/gateway",
     TOOLS_ALLOW_FS_WRITE |-> FALSE, TOOLS_HTTP_ALLOWED_HOSTS |-> "127.0.0.1,localhost"]

\* An allowlist that adds the explicit names to the toggles' names.
_allowed_tool_names_Union(S) ==
    LET raw   == strip(S.TOOLS_ALLOWLIST)
        parts == split(raw, ",")
    IN  {strip(parts[i]) : i \in {j \in DOMAIN parts : strip(parts[j]) # ""}}
        \cup (IF S.TOOLS_ALLOW_SHELL THEN {"shell"} ELSE {})
        \cup (IF S.TOOLS_ALLOW_FS THEN {"read_file", "write_file"} ELSE {})
        \cup (IF S.TOOLS_ALLOW_HTTP_FETCH THEN {"http_fetch"} ELSE {})
        \cup (IF S.TOOLS_ALLOW_GIT THEN {"git"} ELSE {})

\* _allowed_tool_names()
_allowed_tool_names(S) ==
    LET raw   == strip(S.TOOLS_ALLOWLIST)
        parts == split(raw, ",")
    IN  IF raw # ""
        THEN {strip(parts[i]) : i \in {j \in DOMAIN parts : strip(parts[j]) # ""}}
        ELSE (IF S.TOOLS_ALLOW_SHELL THEN {"shell"} ELSE {})
             \cup (IF S.TOOLS_ALLOW_FS THEN {"read_file", "write_file"} ELSE {})
             \cup (IF S.TOOLS_ALLOW_HTTP_FETCH THEN {"http_fetch"} ELSE {})
             \cup (IF S.TOOLS_ALLOW_GIT THEN {"git"} ELSE {})

\* is_tool_allowed(name)
is_tool_allowed(name, S) == name \in _allowed_tool_names(S)

\* new_id("tool"): the n-th id handed out; no id is handed out twice.
new_id(prefix, n) == [prefix |-> prefix, token |-> n]

\* What TOOL_IMPL[name](args) does: it returns a dict or it raises.
Returns(out) == [kind |-> "returns", out |-> out, exc |-> ""]
Raises(exc) == [kind |-> "raises", out |-> <<>>, exc |-> exc]

\* The handler answers without calling the tool.
NotCalled == [kind |-> "not called", out |-> [ok |-> FALSE], exc |-> ""]

ToolOutcomes ==
    {Returns([ok |-> TRUE]),
     Returns([ok |-> FALSE, error |-> "timeout after 20s"]),
     Raises("RuntimeError: boom"),
     NotCalled}

\* What a tool function hands back: its result or its exception, and the
\* operating system calls it has made.
ToolReturn(out, effects) == [kind |-> "returns", out |-> out, exc |-> "", effects |-> effects]
ToolRaise(exc, effects) == [kind |-> "raises", out |-> <<>>, exc |-> exc, effects |-> effects]
ToolError(error) == ToolReturn([ok |-> FALSE, error |-> error], <<>>)

\* A call inside the function's try block: a result, a timeout or an
\* exception, each of which the function turns into a dict.
Guarded(outcome, effects) ==
    IF outcome.kind = "raises"
    THEN ToolReturn([ok |-> FALSE, error |-> outcome.exc], effects)
    ELSE ToolReturn(outcome.out, effects)

\* {p.strip() for p in (setting or "").split(",") if p.strip()}
comma_set(setting) ==
    LET parts == split(setting, ",")
    IN  {strip(parts[i]) : i \in DOMAIN parts} \ {""}

\* args.get(key)
args_get(args, key) == IF key \in DOMAIN args.val THEN args.val[key] ELSE JNone

\* shlex.split(cmd)[0] for a command without quotes or escapes; "" when there is
\* no token.
first_token(cmd) ==
    LET parts == split(strip(cmd), " ")
    IN  parts[1]

\* tool_shell with the test of TOOLS_ALLOW_SHELL left out
tool_shell_NoToggle(args, S, outcome) ==
    LET cmd     == args_get(args, "cmd")
        allowed == comma_set(S.TOOLS_SHELL_ALLOWED_CMDS)
    IN  IF ~isinstance(cmd, "str") \/ strip(cmd.val) = ""
        THEN ToolError("cmd must be a non-empty string")
        ELSE IF outcome.kind = "raises"
        THEN ToolRaise(outcome.exc, <<"os.makedirs">>)
        ELSE IF allowed = {}
        THEN ToolReturn([ok |-> FALSE,
                         error |-> "shell tool not configured (TOOLS_SHELL_ALLOWED_CMDS empty)"],
                        <<"os.makedirs">>)
        ELSE IF first_token(cmd.val) \notin allowed
        THEN ToolReturn([ok |-> FALSE,
                         error |-> "command not allowed: " \o first_token(cmd.val)],
                        <<"os.makedirs">>)
        ELSE Guarded(outcome, <<"os.makedirs", "subprocess.run">>)

\* tool_shell(args). os.makedirs(cwd) stands outside the try block: the
\* outcome "raises" is its exception, which leaves the function.
tool_shell(args, S, outcome) ==
    IF ~S.TOOLS_ALLOW_SHELL
    THEN ToolError("shell tool disabled")
    ELSE LET cmd     == args_get(args, "cmd")
             allowed == comma_set(S.TOOLS_SHELL_ALLOWED_CMDS)
         IN  IF ~isinstance(cmd, "str") \/ strip(cmd.val) = ""
             THEN ToolError("cmd must be a non-empty string")
             ELSE IF outcome.kind = "raises"
             THEN ToolRaise(outcome.exc, <<"os.makedirs">>)
             ELSE IF allowed = {}
             THEN ToolReturn([ok |-> FALSE,
                              error |-> "shell tool not configured (TOOLS_SHELL_ALLOWED_CMDS empty)"],
                             <<"os.makedirs">>)
             ELSE IF first_token(cmd.val) \notin allowed
             THEN ToolReturn([ok |-> FALSE,
                              error |-> "command not allowed: " \o first_token(cmd.val)],
                             <<"os.makedirs">>)
             ELSE Guarded(outcome, <<"os.makedirs", "subprocess.run">>)

\* The path a tool opens lies under one of the roots: a relative path is taken
\* from the first root; ".." and symbolic links, which resolve() follows, are
\* not in the paths of the model.
under_roots(path, roots) ==
    LET p == IF startswith(path, "/") THEN path ELSE roots[1] \o "/" \o path
    IN  \E i \in DOMAIN roots : p = roots[i] \/ startswith(p, roots[i] \o "/")

\* [r.strip() for r in (S.TOOLS_FS_ROOTS or "").split(",") if r.strip()]
fs_roots(S) ==
    LET parts == split(S.TOOLS_FS_ROOTS, ",")
        F[i \in 0..Len(parts)] ==
            IF i = 0 THEN <<>>
            ELSE IF strip(parts[i]) = "" THEN F[i - 1]
            ELSE Append(F[i - 1], strip(parts[i]))
    IN  F[Len(parts)]

\* tool_read_file(args)
tool_read_file(args, S, outcome) ==
    IF ~S.TOOLS_ALLOW_FS
    THEN ToolError("fs tool disabled")
    ELSE LET path == args_get(args, "path")
         IN  IF ~isinstance(path, "str") \/ path.val = ""
             THEN ToolError("path must be a non-empty string")
             ELSE IF fs_roots(S) = <<>>
             THEN ToolError("fs tool not configured (TOOLS_FS_ROOTS empty)")
             ELSE IF ~under_roots(path.val, fs_roots(S))
             THEN ToolError("path outside allowed roots")
             ELSE Guarded(outcome, <<"open rb">>)

\* tool_write_file(args); the contents of the model are below
\* TOOLS_FS_MAX_BYTES.
tool_write_file(args, S, outcome) ==
    IF ~S.TOOLS_ALLOW_FS
    THEN ToolError("fs tool disabled")
    ELSE IF ~S.TOOLS_ALLOW_FS_WRITE
    THEN ToolError("fs write disabled")
    ELSE LET path    == args_get(args, "path")
             content == IF "content" \in DOMAIN args.val THEN args.val.content ELSE JStr("")
         IN  IF ~isinstance(path, "str") \/ path.val = ""
             THEN ToolError("path must be a non-empty string")
             ELSE IF ~isinstance(content, "str")
             THEN ToolError("content must be a string")
             ELSE IF fs_roots(S) = <<>>
             THEN ToolError("fs tool not configured (TOOLS_FS_ROOTS empty)")
             ELSE IF ~under_roots(path.val, fs_roots(S))
             THEN ToolError("path outside allowed roots")
             ELSE Guarded(outcome, <<"os.makedirs", "open w">>)

\* urlparse(url).scheme, for the schemes the tool tells apart
url_scheme(url) ==
    IF startswith(lower(url), "http://") THEN "http"
    ELSE IF startswith(lower(url), "https://") THEN "https"
    ELSE ""

\* urlparse(url).hostname of an http(s) URL without user, password or port
url_hostname(url) ==
    LET rest == after(url, url_scheme(url) \o "://")
    IN  lower(split(rest, "/")[1])

\* tool_http_fetch(args)
tool_http_fetch(args, S, outcome) ==
    IF ~S.TOOLS_ALLOW_HTTP_FETCH
    THEN ToolError("http_fetch tool disabled")
    ELSE LET url    == args_get(args, "url")
             method == args_get(args, "method")
             hdrs   == args_get(args, "headers")
         IN  IF ~isinstance(url, "str") \/ strip(url.val) = ""
             THEN ToolError("url must be a non-empty string")
             ELSE IF isinstance(method, "str") /\ method.val # ""
                     /\ lower(strip(method.val)) # "get"
             THEN ToolError("only GET is supported")
             ELSE IF url_scheme(url.val) = ""
             THEN ToolError("only http/https URLs are allowed")
             ELSE IF strip(url_hostname(url.val)) = ""
             THEN ToolError("url must include a hostname")
             ELSE IF strip(url_hostname(url.val))
                       \notin {lower(h) : h \in comma_set(S.TOOLS_HTTP_ALLOWED_HOSTS)}
             THEN ToolError("host not allowed: " \o strip(url_hostname(url.val)))
             ELSE IF ~isinstance(hdrs, "NoneType")
                     /\ ~(isinstance(hdrs, "dict")
                          /\ \A k \in DOMAIN hdrs.val : isinstance(hdrs.val[k], "str"))
             THEN ToolError("headers must be an object of string:string")
             ELSE Guarded(outcome, <<"httpx.stream">>)

\* allowed_subcmds of tool_git
allowed_subcmds == {"status", "diff", "log", "show", "rev-parse", "ls-files"}

\* tool_git(args). os.makedirs(cwd) stands outside the try block: the outcome
\* "raises" is its exception, which leaves the function.
tool_git(args, S, outcome) ==
    IF ~S.TOOLS_ALLOW_GIT
    THEN ToolError("git tool disabled")
    ELSE LET argv == args_get(args, "args")
         IN  IF ~isinstance(argv, "list") \/ argv.val = <<>>
                \/ \E i \in DOMAIN argv.val :
                      ~isinstance(argv.val[i], "str") \/ argv.val[i].val = ""
             THEN ToolError("args must be a non-empty list of strings")
             ELSE IF strip(argv.val[1].val) \notin allowed_subcmds
             THEN ToolError("git subcommand not allowed: " \o strip(argv.val[1].val))
             ELSE IF outcome.kind = "raises"
             THEN ToolRaise(outcome.exc, <<"os.makedirs">>)
             ELSE Guarded(outcome, <<"os.makedirs", "subprocess.run">>)

\* TOOL_IMPL[name](args); outcome is what the operating system does with the
\* calls the function makes.
call_tool(name, args, S, outcome) ==
    CASE name = "shell" -> tool_shell(args, S, outcome)
      [] name = "read_file" -> tool_read_file(args, S, outcome)
      [] name = "write_file" -> tool_write_file(args, S, outcome)
      [] name = "http_fetch" -> tool_http_fetch(args, S, outcome)
      [] name = "git" -> tool_git(args, S, outcome)

\* A rejection that leaves a line in the tool log.
ToolHttpError_Logged(status_code, detail) ==
    [status |-> status_code, detail |-> detail, body |-> <<>>, executed |-> FALSE,
     effects |-> <<>>,
     lines |-> <<[replay_id |-> <<>>, tool |-> "", ok |-> FALSE, args |-> <<>>,
                  result |-> [ok |-> FALSE]]>>]

\* What a handler hands back: the response, whether the tool function was
\* called and what it did, and the lines appended to the log. An HTTPException
\* leaves the handler before any of it.
ToolHttpError(status_code, detail) ==
    [status |-> status_code, detail |-> detail, body |-> <<>>, executed |-> FALSE,
     effects |-> <<>>, lines |-> <<>>]

\* What the file system does with the append to TOOLS_LOG_PATH.
LogWrites == {"written", "OSError"}

\* _log_tool_event, had it no except clause: the OSError leaves the handler.
_log_tool_event_Propagates(event, write) ==
    [lines |-> IF write = "written" THEN <<event>> ELSE <<>>,
     raised |-> write # "written"]

\* _log_tool_event(event): makedirs, dumps and the append are inside one try
\* whose except clause returns; the line is in the file only if all succeeded.
_log_tool_event(event, write) ==
    [lines |-> IF write = "written" THEN <<event>> ELSE <<>>,
     raised |-> FALSE]

\* _execute_tool(name, args); n ids were handed out before the call. The event's
\* ts and duration_ms are clock readings and are left out; args and out are
\* dicts, which _truncate returns unchanged.
_execute_tool(name, args, S, outcome, n, write) ==
    IF name \notin TOOL_IMPL
    THEN ToolHttpError(404, JStr("unknown tool: " \o name))
    ELSE IF ~is_tool_allowed(name, S)
    THEN ToolHttpError(403, JStr("tool not allowed: " \o name))
    ELSE LET errs == IF name \in DOMAIN TOOL_SCHEMAS
                     THEN _validate_against_schema(TOOL_SCHEMAS[name], args)
                     ELSE <<>>
         IN  IF errs # <<>>
             THEN ToolHttpError(400, JDict([error |-> "invalid tool arguments",
                                            issues |-> errs]))
             ELSE LET replay_id == new_id("tool", n + 1)
                      called    == call_tool(name, args, S, outcome)
                      out       == IF called.kind = "raises"
                                   THEN [ok |-> FALSE, error |-> called.exc]
                                   ELSE called.out
                      event     == [replay_id |-> replay_id, tool |-> name, ok |-> out.ok,
                                    args |-> args, result |-> out]
                      logged    == _log_tool_event(event, write)
                  IN  IF logged.raised
                      THEN [status |-> 500, detail |-> JStr("Internal Server Error"),
                            body |-> <<>>, executed |-> TRUE,
                            effects |-> called.effects, lines |-> logged.lines]
                      ELSE [status |-> 200, detail |-> JNone,
                            body |-> out @@ ("replay_id" :> replay_id),
                            executed |-> TRUE,
                            effects |-> called.effects, lines |-> logged.lines]

\* POST /v1/tools/{name}: ToolExecRequest(**body) takes "arguments", a dict that
\* defaults to {}; anything else fails its validation, which nothing catches.
v1_tools_exec(name, body, S, outcome, n, write) ==
    LET arguments == IF "arguments" \in DOMAIN body THEN body.arguments ELSE JDict(<<>>)
    IN  IF ~isinstance(arguments, "dict")
        THEN ToolHttpError(500, JStr("Internal Server Error"))
        ELSE _execute_tool(name, arguments, S, outcome, n, write)

\* POST /v1/tools with a body that is a JSON object
v1_tools_dispatch(body, S, outcome, n, write) ==
    LET name == IF "name" \in DOMAIN body THEN body.name ELSE JNone
        args == IF "arguments" \in DOMAIN body THEN body.arguments ELSE JNone
    IN  IF ~isinstance(name, "str") \/ strip(name.val) = ""
        THEN ToolHttpError(400, JStr("name must be a non-empty string"))
        ELSE IF ~isinstance(args, "NoneType") /\ ~isinstance(args, "dict")
        THEN ToolHttpError(400, JStr("arguments must be an object"))
        ELSE _execute_tool(strip(name.val),
                           IF isinstance(args, "NoneType") THEN JDict(<<>>) ELSE args,
                           S, outcome, n, write)

\* The deployments of the tool bus: the toggles alone, or an explicit allowlist.
ToolDeployments ==
    {ToolSettings("", FALSE, TRUE, TRUE, TRUE),
     ToolSettings(" git, read_file ,nope", FALSE, FALSE, TRUE, FALSE)}

\* The number of tool calls that are followed.
MaxToolCalls == 2

Args(d) == ("arguments" :> JDict(d))

\* Requests to POST /v1/tools/{name}
ExecRequests ==
    [name : {"read_file"},
     body : {Args([path |-> JStr("a")]),
             Args([path |-> JStr("a"), extra |-> JInt(1)]),
             Args([path |-> JInt(1)]),
             Args([zz |-> JInt(1), extra |-> JInt(1)]),
             <<>>,
             ("arguments" :> JStr("a"))}]
    \cup [name : {"write_file"},
          body : {Args([content |-> JInt(1)])}]
    \cup [name : {"git"},
          body : {Args([args |-> JList(<<JStr("status")>>)]),
                  Args([args |-> JList(<<JStr("log"), JInt(1)>>)]),
                  Args([args |-> JStr("status")])}]
    \cup [name : {"http_fetch"},
          body : {Args([url |-> JStr("u"), method |-> JStr("POST"),
                        headers |-> JDict([a |-> JInt(1)])]),
                  Args([url |-> JStr("u"), headers |-> JStr("a")])}]
    \cup [name : {"shell"},
          body : {Args([cmd |-> JStr("ls")]), Args([extra |-> JInt(1)])}]
    \cup [name : {"nope"},
          body : {Args([extra |-> JInt(1)])}]

\* Bodies of POST /v1/tools
DispatchBodies ==
    {[name |-> JStr(" read_file "), arguments |-> JDict([path |-> JStr("a")])],
     [name |-> JStr("git"), arguments |-> JNone],
     [name |-> JStr("git"), arguments |-> JList(<<JStr("status")>>)],
     [name |-> JStr(" ")],
     [arguments |-> JDict(<<>>)]}

NoToolCall ==
    [pc |-> "none", endpoint |-> "", name |-> JNone, arguments |-> JNone,
     status |-> 0, detail |-> JNone, body |-> <<>>, executed |-> FALSE, effects |-> <<>>]

ToolInit ==
    /\ tool_settings = ToolSettings("", FALSE, TRUE, TRUE, TRUE)
    /\ issued = 0
    /\ tool_log = <<>>
    /\ tool_last = NoToolCall
    /\ tool_prev = NoToolCall

\* The gateway is restarted with other tool settings; the log file stays.
ToolsRestart(S) ==
    /\ S # tool_settings
    /\ tool_settings' = S
    /\ UNCHANGED <<issued, tool_log, tool_last, tool_prev>>
    /\ UNCHANGED <<streamVars, admitVars, routeVars, loopVars, edgeVars>>

\* The handler has answered: the client holds the response, and a tool that
\* ran has taken an id and handed its event to _log_tool_event. A handler that
\* logs nothing is enumerated with the one write outcome "written".
ToolResponse(endpoint, name, arguments, outcome, write, r) ==
    /\ r.executed => issued < MaxToolCalls
    /\ r.executed <=> outcome # NotCalled
    /\ ~r.executed => write = "written"
    /\ tool_last' = [pc |-> "done", endpoint |-> endpoint, name |-> name,
                     arguments |-> arguments, status |-> r.status, detail |-> r.detail,
                     body |-> r.body, executed |-> r.executed, effects |-> r.effects]
    /\ tool_prev' = IF tool_last.status = 200 THEN tool_last ELSE tool_prev
    /\ issued' = IF r.executed THEN issued + 1 ELSE issued
    /\ tool_log' = tool_log \o r.lines
    /\ UNCHANGED tool_settings
    /\ UNCHANGED <<streamVars, admitVars, routeVars, loopVars, edgeVars>>

ToolsExec(rq_, outcome, write) ==
    ToolResponse("/v1/tools/{name}", JStr(rq_.name),
                 IF "arguments" \in DOMAIN rq_.body THEN rq_.body.arguments ELSE JDict(<<>>),
                 outcome, write,
                 v1_tools_exec(rq_.name, rq_.body, tool_settings, outcome, issued, write))

ToolsDispatch(body, outcome, write) ==
    ToolResponse("/v1/tools",
                 IF "name" \in DOMAIN body
                 THEN (IF isinstance(body.name, "str") THEN JStr(strip(body.name.val))
                       ELSE body.name)
                 ELSE JNone,
                 IF "arguments" \in DOMAIN body /\ ~isinstance(body.arguments, "NoneType")
                 THEN body.arguments ELSE JDict(<<>>),
                 outcome, write,
                 v1_tools_dispatch(body, tool_settings, outcome, issued, write))

ToolsNext ==
    \/ \E S \in ToolDeployments : ToolsRestart(S)
    \/ \E rq_ \in ExecRequests, outcome \in ToolOutcomes : ToolsExec(rq_, outcome, "written")
    \/ \E body \in DispatchBodies, outcome \in ToolOutcomes :
          ToolsDispatch(body, outcome, "written")

\* Deployments that set the tools' own settings: every tool listed and every
\* toggle off; every toggle on; the toggles on with writing off and no shell
\* command configured.
FnDeployments ==
    {[ToolSettings("shell,read_file,write_file,http_fetch,git", FALSE, FALSE, FALSE, FALSE)
        EXCEPT !.TOOLS_SHELL_ALLOWED_CMDS = "git, ls", !.TOOLS_ALLOW_FS_WRITE = TRUE],
     [ToolSettings("", TRUE, TRUE, TRUE, TRUE)
        EXCEPT !.TOOLS_SHELL_ALLOWED_CMDS = "git, ls", !.TOOLS_ALLOW_FS_WRITE = TRUE],
     ToolSettings("", TRUE, TRUE, TRUE, TRUE)}

\* Requests whose arguments pass _validate_against_schema
FnRequests ==
    [name : {"shell"},
     body : {Args([cmd |-> JStr("ls -l")]), Args([cmd |-> JStr("rm -rf x")])}]
    \cup [name : {"read_file"},
          body : {Args([path |-> JStr("/etc/passwd")])}]
    \cup [name : {"write_file"},
          body : {Args([path |-> JStr("a"), content |-> JStr("c")])}]
    \cup [name : {"http_fetch"},
          body : {Args([url |-> JStr("http://localhost/x")])}]
    \cup [name : {"git"},
          body : {Args([args |-> JList(<<JStr("status")>>)])}]

\* The tool bus called with valid arguments under the tools' own settings.
ToolFnsNext ==
    \/ \E S \in FnDeployments : ToolsRestart(S)
    \/ \E rq_ \in FnRequests, outcome \in ToolOutcomes : ToolsExec(rq_, outcome, "written")

\* The requests sent while the log file may be unwritable: a tool both
\* deployments allow, one neither allows, and a name without a handler.
LogRequests == {rq_ \in ExecRequests : rq_.name \in {"read_file", "shell", "nope"}}

\* The tool bus on a file system where an append to the log may fail.
ToolLogNext ==
    \/ \E S \in ToolDeployments : ToolsRestart(S)
    \/ \E rq_ \in LogRequests, outcome \in ToolOutcomes, write \in LogWrites :
          ToolsExec(rq_, outcome, write)
    \/ \E body \in DispatchBodies, outcome \in ToolOutcomes, write \in LogWrites :
          ToolsDispatch(body, outcome, write)

(***************************************************************************)
(* The tool loop of a chat request with tools (app/main.py).               *)
(***************************************************************************)

\* tool_loop's max_steps
max_steps == 8

\* The number of tool calls the model returns in one turn, at most.
MaxCallsPerTurn == 2

\* The keys of main.TOOL_IMPL
main_TOOL_IMPL == {"shell", "read_file", "write_file", "http_fetch"}

\* main._is_tool_allowed(name)
main_is_tool_allowed(name, S) ==
    LET raw   == strip(S.TOOLS_ALLOWLIST)
        parts == split(raw, ",")
    IN  name \in (IF raw # ""
                  THEN {strip(parts[i]) : i \in {j \in DOMAIN parts : strip(parts[j]) # ""}}
                  ELSE (IF S.TOOLS_ALLOW_SHELL THEN {"shell"} ELSE {})
                       \cup (IF S.TOOLS_ALLOW_FS THEN {"read_file", "write_file"} ELSE {})
                       \cup (IF S.TOOLS_ALLOW_HTTP_FETCH THEN {"http_fetch"} ELSE {}))

\* What run_tool_call hands back: a result dict, or the exception of the tool
\* function, which it does not catch.
ToolResult(out) == [raised |-> FALSE, out |-> out]
ToolRaised == [raised |-> TRUE, out |-> [ok |-> FALSE]]

\* main.run_tool_call(name, arguments_json); parses says whether json.loads
\* accepts arguments_json.
main_run_tool_call(name, parses, S, outcome) ==
    IF name \notin main_TOOL_IMPL
    THEN ToolResult([ok |-> FALSE, error |-> "unknown tool: " \o name])
    ELSE IF ~main_is_tool_allowed(name, S)
    THEN ToolResult([ok |-> FALSE, error |-> "tool not allowed: " \o name])
    ELSE IF ~parses
    THEN ToolResult([ok |-> FALSE, error |-> "tool arguments must be valid JSON"])
    ELSE IF outcome.kind = "raises" THEN ToolRaised
    ELSE ToolResult(outcome.out)

\* One entry of the model's tool_calls with what its tool will do.
ToolCall(name, parses, outcome) == [name |-> name, parses |-> parses, outcome |-> outcome]

LoopCalls ==
    {ToolCall("read_file", TRUE, Returns([ok |-> TRUE])),
     ToolCall("read_file", TRUE, Returns([ok |-> FALSE, error |-> "timeout after 20s"])),
     ToolCall("read_file", TRUE, Raises("RuntimeError: boom")),
     ToolCall("read_file", FALSE, NotCalled),
     ToolCall("shell", TRUE, NotCalled),
     ToolCall("nope", TRUE, NotCalled)}

\* The tool_calls of one upstream answer: none, or up to MaxCallsPerTurn calls.
TurnCalls == UNION {[1..k -> LoopCalls] : k \in 0..MaxCallsPerTurn}

\* What the loop does with call number k of a turn: it calls run_tool_call,
\* gets its result back, appends the tool message.
Started(k) == [ev |-> "start", call |-> k]
Returned(k) == [ev |-> "return", call |-> k]
Appended(k) == [ev |-> "append", call |-> k]

\* A loop that takes the tool calls of a turn last to first.
RECURSIVE run_calls_LastFirst(_, _, _)
run_calls_LastFirst(tool_calls, S, k) ==
    IF k > Len(tool_calls) THEN [raised |-> FALSE, tool_messages |-> <<>>, trace |-> <<>>]
    ELSE LET c      == Len(tool_calls) + 1 - k
             tc     == tool_calls[c]
             result == main_run_tool_call(tc.name, tc.parses, S, tc.outcome)
         IN  IF result.raised
             THEN [raised |-> TRUE, tool_messages |-> <<>>, trace |-> <<Started(c)>>]
             ELSE LET rest == run_calls_LastFirst(tool_calls, S, k + 1)
                  IN  [raised |-> rest.raised,
                       tool_messages |->
                           IF rest.raised THEN <<>>
                           ELSE <<[role |-> "tool", tool_call_id |-> c,
                                   content |-> result.out]>> \o rest.tool_messages,
                       trace |-> <<Started(c), Returned(c), Appended(c)>> \o rest.trace]

\* for tc in tool_calls: result = run_tool_call(...); new_messages.append(...)
\* The tool messages appended, in order, up to a call that raises, and what
\* the loop did, step by step.
RECURSIVE run_calls(_, _, _)
run_calls(tool_calls, S, k) ==
    IF k > Len(tool_calls) THEN [raised |-> FALSE, tool_messages |-> <<>>, trace |-> <<>>]
    ELSE LET tc     == tool_calls[k]
             result == main_run_tool_call(tc.name, tc.parses, S, tc.outcome)
         IN  IF result.raised
             THEN [raised |-> TRUE, tool_messages |-> <<>>, trace |-> <<Started(k)>>]
             ELSE LET rest == run_calls(tool_calls, S, k + 1)
                  IN  [raised |-> rest.raised,
                       tool_messages |->
                           IF rest.raised THEN <<>>
                           ELSE <<[role |-> "tool", tool_call_id |-> k,
                                   content |-> result.out]>> \o rest.tool_messages,
                       trace |-> <<Started(k), Returned(k), Appended(k)>> \o rest.trace]

NoToolLoop ==
    [pc |-> "idle", step |-> 0, upstream_calls |-> 0, n_messages |-> 0,
     turn |-> <<>>, n_calls |-> 0, trace |-> <<>>, status |-> 0, detail |-> ""]

\* chat_completions calls tool_loop(cc, backend, model_name) for a request with
\* tools and n messages; the first iteration awaits the upstream.
ToolLoopStart(n) ==
    /\ tl.pc = "idle"
    /\ tl' = [NoToolLoop EXCEPT !.pc = "upstream", !.upstream_calls = 1, !.n_messages = n]
    /\ UNCHANGED <<agent_settings, agent_runs, heavy_slots>>
    /\ UNCHANGED <<streamVars, admitVars, routeVars, toolVars, edgeVars>>

\* The upstream answers; the loop returns the answer when it has no tool_calls,
\* and otherwise runs the calls, appends the messages and goes round again, up
\* to max_steps times.
ToolLoopUpstreamReturns(tool_calls) ==
    /\ tl.pc = "upstream"
    /\ IF tool_calls = <<>>
       THEN tl' = [tl EXCEPT !.pc = "returned", !.status = 200, !.turn = <<>>,
                             !.n_calls = 0, !.trace = <<>>]
       ELSE LET ran == run_calls(tool_calls, tool_settings, 1)
            IN  IF ran.raised
                THEN tl' = [tl EXCEPT !.pc = "raised", !.status = 500,
                                      !.detail = "Internal Server Error",
                                      !.turn = ran.tool_messages,
                                      !.n_calls = Len(tool_calls), !.trace = ran.trace]
                ELSE IF tl.step + 1 < max_steps
                THEN tl' = [tl EXCEPT !.step = @ + 1, !.upstream_calls = @ + 1,
                                      !.n_messages = @ + 1 + Len(tool_calls),
                                      !.turn = ran.tool_messages,
                                      !.n_calls = Len(tool_calls), !.trace = ran.trace]
                ELSE tl' = [tl EXCEPT !.pc = "raised", !.step = @ + 1, !.status = 500,
                                      !.detail = "tool loop exceeded max_steps",
                                      !.n_messages = @ + 1 + Len(tool_calls),
                                      !.turn = ran.tool_messages,
                                      !.n_calls = Len(tool_calls), !.trace = ran.trace]
    /\ UNCHANGED <<agent_settings, agent_runs, heavy_slots>>
    /\ UNCHANGED <<streamVars, admitVars, routeVars, toolVars, edgeVars>>

\* call_mlx_openai / call_ollama raise HTTPException(502)
ToolLoopUpstreamFails ==
    /\ tl.pc = "upstream"
    /\ tl' = [tl EXCEPT !.pc = "raised", !.status = 502, !.detail = "upstream", !.turn = <<>>,
                      !.n_calls = 0, !.trace = <<>>]
    /\ UNCHANGED <<agent_settings, agent_runs, heavy_slots>>
    /\ UNCHANGED <<streamVars, admitVars, routeVars, toolVars, edgeVars>>

\* The response is sent; the next request may come.
ToolLoopResponseSent ==
    /\ tl.pc \in {"returned", "raised"}
    /\ tl' = NoToolLoop
    /\ UNCHANGED <<agent_settings, agent_runs, heavy_slots>>
    /\ UNCHANGED <<streamVars, admitVars, routeVars, toolVars, edgeVars>>

LoopNext ==
    \/ \E n \in 1..2 : ToolLoopStart(n)
    \/ \E tool_calls \in TurnCalls : ToolLoopUpstreamReturns(tool_calls)
    \/ ToolLoopUpstreamFails
    \/ ToolLoopResponseSent

LoopInit ==
    /\ tl = NoToolLoop

(***************************************************************************)
(* Agent runs (POST /v1/agent/run): admission by tier and the              *)
(* plan / action loop.                                                     *)
(***************************************************************************)

\* The number of agent runs that are followed.
NumAgentRuns == 2

\* The size of the global heavy-tier semaphore.
HeavyLimit == 1

\* AgentSpec: tier and max_turns
AgentSpec(tier, max_turns) == [tier |-> tier, max_turns |-> max_turns]

AgentSpecs == {AgentSpec(0, 2), AgentSpec(1, 1), AgentSpec(2, 2)}

\* A semaphore that always has a free slot.
heavy_exhausted_Never(slots) == FALSE

\* The heavy-tier semaphore has no free slot.
heavy_exhausted(slots) == slots = 0

\* The run has to hold a slot of the heavy-tier semaphore.
is_heavy(S, spec) == S.AGENT_SHED_HEAVY /\ spec.tier >= 1

NewAgentRun ==
    [pc |-> "new", tier |-> 0, max_turns |-> 0, turns |-> 0, upstream_calls |-> 0,
     holds_heavy |-> FALSE, status |-> 0, error |-> "", ok |-> FALSE, reason |-> ""]

AgentInit ==
    /\ agent_settings = [AGENT_SHED_HEAVY |-> TRUE]
    /\ agent_runs = [r \in 1..NumAgentRuns |-> NewAgentRun]
    /\ heavy_slots = HeavyLimit

\* The gateway is configured with or without heavy-tier shedding, before any
\* run is accepted.
AgentConfigure(shed_heavy) ==
    /\ \A r \in DOMAIN agent_runs : agent_runs[r].pc = "new"
    /\ agent_settings.AGENT_SHED_HEAVY # shed_heavy
    /\ agent_settings' = [AGENT_SHED_HEAVY |-> shed_heavy]
    /\ UNCHANGED <<tl, agent_runs, heavy_slots>>
    /\ UNCHANGED <<streamVars, admitVars, routeVars, toolVars, edgeVars>>

\* The run ends: run_completed is emitted and a held slot is given back.
AgentEnd(r, status, ok, reason, error) ==
    /\ agent_runs' = [agent_runs EXCEPT ![r].pc = "done", ![r].status = status,
                                        ![r].ok = ok, ![r].reason = reason,
                                        ![r].error = error, ![r].holds_heavy = FALSE]
    /\ heavy_slots' = IF agent_runs[r].holds_heavy THEN heavy_slots + 1 ELSE heavy_slots

\* POST /v1/agent/run: tier shedding, then run_started and the first plan call.
AgentRunStart(r, spec) ==
    /\ agent_runs[r].pc = "new"
    /\ IF is_heavy(agent_settings, spec) /\ heavy_exhausted(heavy_slots)
       THEN /\ agent_runs' = [agent_runs EXCEPT ![r].pc = "done", ![r].tier = spec.tier,
                                                ![r].max_turns = spec.max_turns,
                                                ![r].status = 429,
                                                ![r].error = "shed_heavy"]
            /\ UNCHANGED heavy_slots
       ELSE /\ agent_runs' = [agent_runs EXCEPT ![r].pc = "plan", ![r].tier = spec.tier,
                                                ![r].max_turns = spec.max_turns,
                                                ![r].holds_heavy =
                                                    is_heavy(agent_settings, spec)]
            /\ heavy_slots' = IF is_heavy(agent_settings, spec)
                              THEN heavy_slots - 1 ELSE heavy_slots
    /\ UNCHANGED <<tl, agent_settings>>
    /\ UNCHANGED <<streamVars, admitVars, routeVars, toolVars, edgeVars>>

\* plan := chat(messages)
AgentPlan(r) ==
    /\ agent_runs[r].pc = "plan"
    /\ IF agent_runs[r].turns < agent_runs[r].max_turns
       THEN /\ agent_runs' = [agent_runs EXCEPT ![r].pc = "action",
                                                ![r].upstream_calls = @ + 1]
            /\ UNCHANGED heavy_slots
       ELSE AgentEnd(r, 200, FALSE, "max_turns", "")
    /\ UNCHANGED <<tl, agent_settings>>
    /\ UNCHANGED <<streamVars, admitVars, routeVars, toolVars, edgeVars>>

\* action := chat(messages + tools); with tool_calls the tools run and the
\* turn is counted, without them the run completes.
AgentAction(r, has_tool_calls) ==
    /\ agent_runs[r].pc = "action"
    /\ IF has_tool_calls
       THEN /\ agent_runs' = [agent_runs EXCEPT ![r].pc = "plan", ![r].turns = @ + 1,
                                                ![r].upstream_calls = @ + 1]
            /\ UNCHANGED heavy_slots
       ELSE /\ AgentEnd(r, 200, TRUE, "", "")
    /\ UNCHANGED <<tl, agent_settings>>
    /\ UNCHANGED <<streamVars, admitVars, routeVars, toolVars, edgeVars>>

\* The chat back-end fails: the error surfaces as 502.
AgentUpstreamFails(r) ==
    /\ agent_runs[r].pc \in {"plan", "action"}
    /\ agent_runs[r].turns < agent_runs[r].max_turns
    /\ AgentEnd(r, 502, FALSE, "", "upstream")
    /\ UNCHANGED <<tl, agent_settings>>
    /\ UNCHANGED <<streamVars, admitVars, routeVars, toolVars, edgeVars>>

AgentNext ==
    \/ \E shed_heavy \in BOOLEAN : AgentConfigure(shed_heavy)
    \/ \E r \in 1..NumAgentRuns, spec \in AgentSpecs : AgentRunStart(r, spec)
    \/ \E r \in 1..NumAgentRuns : AgentPlan(r)
    \/ \E r \in 1..NumAgentRuns, has_tool_calls \in BOOLEAN : AgentAction(r, has_tool_calls)
    \/ \E r \in 1..NumAgentRuns : AgentUpstreamFails(r)

(***************************************************************************)
(* Specifications.                                                         *)
(***************************************************************************)
(***************************************************************************)
(* Authentication of the bearer-protected endpoints (app/auth.py).         *)
(***************************************************************************)
\* Addresses are 8 bits wide here; a network is an address and a prefix length.
AddrBits == 8

RECURSIVE Pow2(_)
Pow2(n) == IF n = 0 THEN 1 ELSE 2 * Pow2(n - 1)

\* The parts of an allowlist string between its commas.
BlankPart == [kind |-> "blank", addr |-> 0, prefix |-> 0]
IpPart(a) == [kind |-> "ip", addr |-> a, prefix |-> AddrBits]
NetPart(a, prefix) == [kind |-> "net", addr |-> a, prefix |-> prefix]
BadPart == [kind |-> "bad", addr |-> 0, prefix |-> 0]

\* A value of a setting or of a key of a token policy: a string given by
\* its comma-separated parts (<<>> is the empty string), a JSON list, or None.
AStr(parts) == [type |-> "str", parts |-> parts]
AList == [type |-> "list", parts |-> <<>>]
ANone == [type |-> "NoneType", parts |-> <<>>]

\* raw.strip() == "" for a string given by its parts
is_blank(parts) == parts = <<>> \/ parts = <<BlankPart>>

\* ipaddress.ip_network(part, strict=False): the host bits are masked out.
ip_network(a, prefix) ==
    [addr |-> (a \div Pow2(AddrBits - prefix)) * Pow2(AddrBits - prefix), prefix |-> prefix]

\* `ip in net`
ip_in_net(ip, net) ==
    ip \div Pow2(AddrBits - net.prefix) = net.addr \div Pow2(AddrBits - net.prefix)

\* _parse_allowlist: blank parts and parts that do not parse are skipped.
_parse_allowlist(parts) ==
    { ip_network(parts[i].addr, parts[i].prefix) :
        i \in {j \in 1..Len(parts) : parts[j].kind \in {"ip", "net"}} }

\* req.client.host: an address, a name that is no address, or no client.
HostAddr(a) == [kind |-> "addr", addr |-> a]
HostName == [kind |-> "name", addr |-> 0]
NoClient == [kind |-> "none", addr |-> 0]

\* _client_ip_allowed(req, raw_allowlist=...)
_client_ip_allowed(host, parts) ==
    IF is_blank(parts) THEN TRUE
    ELSE IF host.kind # "addr" THEN FALSE
    ELSE LET nets == _parse_allowlist(parts) IN
         IF nets = {} THEN FALSE
         ELSE \E net \in nets : ip_in_net(host.addr, net)

\* _allowed_bearer_tokens()
_allowed_bearer_tokens(S) ==
    LET raw == strip(S.GATEWAY_BEARER_TOKENS) IN
    IF raw # ""
    THEN LET parts == split(raw, ",") IN
         {strip(parts[i]) : i \in {j \in 1..Len(parts) : strip(parts[j]) # ""}}
    ELSE {S.GATEWAY_BEARER_TOKEN}

\* token_policy_for_token(token): {} when the token has no policy
NoPolicy == [ip_allowlist |-> ANone]

token_policy_for_token(S, token) ==
    IF strip(token) \in DOMAIN S.GATEWAY_TOKEN_POLICIES
    THEN S.GATEWAY_TOKEN_POLICIES[strip(token)]
    ELSE NoPolicy

\* require_bearer: the allowlist that applies.  `(policy.get("ip_allowlist")
\* or "").strip()` raises for a value that is no string, and the except
\* clause takes the global allowlist.
raw_allowlist(S, policy) ==
    LET own == policy.ip_allowlist IN
    IF own.type = "str" /\ ~is_blank(own.parts) THEN own.parts
    ELSE IF S.IP_ALLOWLIST.type = "str" THEN S.IP_ALLOWLIST.parts
    ELSE <<>>

\* require_bearer(req): 0 when it returns, else the status of the
\* HTTPException it raises.
require_bearer(S, auth, host) ==
    IF ~startswith(lower(auth), "bearer ") THEN 401
    ELSE LET token == strip(after(auth, "bearer ")) IN
         IF token \notin _allowed_bearer_tokens(S) THEN 403
         ELSE LET raw == raw_allowlist(S, token_policy_for_token(S, token)) IN
              IF ~is_blank(raw) /\ ~_client_ip_allowed(host, raw) THEN 403
              ELSE 0

\* config.S as app/auth.py and metrics_endpoint read it
AuthSettings(token, tokens, policies, allowlist, metrics) ==
    [GATEWAY_BEARER_TOKEN |-> token, GATEWAY_BEARER_TOKENS |-> tokens,
     GATEWAY_TOKEN_POLICIES |-> policies, IP_ALLOWLIST |-> allowlist,
     METRICS_ENABLED |-> metrics]

AuthDeployments ==
    { AuthSettings("secret", "", <<>>, AStr(<<>>), TRUE),
      AuthSettings("secret", " tokA , tokB,", <<>>,
                   AStr(<<NetPart(17, 4), BadPart>>), TRUE),
      AuthSettings("secret", "tokA,tokB",
                   ("tokA" :> [ip_allowlist |-> AStr(<<IpPart(200)>>)]
                    @@ "tokB" :> [ip_allowlist |-> AStr(<<BlankPart>>)]),
                   AStr(<<IpPart(20), BlankPart>>), FALSE),
      AuthSettings("secret", "tokA,tokB",
                   ("tokA" :> [ip_allowlist |-> AStr(<<BadPart, BlankPart>>)]
                    @@ "tokB" :> [ip_allowlist |-> AList]),
                   AStr(<<>>), TRUE) }

AuthHeaders ==
    {"", "Basic tokA", "Bearer", "Bearer secret", "bearer tokA", "Bearer  tokB ",
     "Bearer nope"}

ClientHosts == {HostAddr(20), HostAddr(30), HostAddr(200), HostName, NoClient}

\* The bearer-protected handlers: gateway_status stands for the handlers
\* whose first statement is require_bearer(req); metrics_endpoint tests
\* METRICS_ENABLED before it.
AuthEndpoints == {"/v1/gateway/status", "/metrics"}

NoAuthRequest ==
    [endpoint |-> "none", auth |-> "", host |-> NoClient, status |-> 0,
     body_ran |-> FALSE]

AuthInit ==
    /\ auth_settings = AuthSettings("secret", "", <<>>, AStr(<<>>), TRUE)
    /\ auth_last = NoAuthRequest

\* The gateway is (re)started with other authentication settings.
AuthRestart(S) ==
    /\ S # auth_settings
    /\ auth_settings' = S
    /\ auth_last' = NoAuthRequest
    /\ UNCHANGED <<embed_last, pt_last, hc_up, hc_loop>>
    /\ UNCHANGED <<streamVars, admitVars, routeVars, toolVars, loopVars>>

\* gateway_status / metrics_endpoint: the request is answered.
BearerRequest(endpoint, auth, host) ==
    LET code == require_bearer(auth_settings, auth, host) IN
    /\ auth_last' =
          IF endpoint = "/metrics" /\ ~auth_settings.METRICS_ENABLED
          THEN [endpoint |-> endpoint, auth |-> auth, host |-> host,
                status |-> 404, body_ran |-> FALSE]
          ELSE [endpoint |-> endpoint, auth |-> auth, host |-> host,
                status |-> IF code = 0 THEN 200 ELSE code,
                body_ran |-> code = 0]
    /\ UNCHANGED <<auth_settings, embed_last, pt_last, hc_up, hc_loop>>
    /\ UNCHANGED <<streamVars, admitVars, routeVars, toolVars, loopVars>>

AuthNext ==
    \/ \E S \in AuthDeployments : AuthRestart(S)
    \/ \E e \in AuthEndpoints, auth \in AuthHeaders, host \in ClientHosts :
          BearerRequest(e, auth, host)

(***************************************************************************)
(* Embeddings (app/upstreams.py): embed_ollama and embed_mlx.              *)
(***************************************************************************)
\* The texts of one call, at most.
MaxTexts == 2

\* A JSON value where a vector is expected: the list of floats that embeds
\* text number `of`, or something that is no list.
Vec(of) == [islist |-> TRUE, of |-> of]
NotAVector == [islist |-> FALSE, of |-> 0]

\* An upstream answer: an HTTP or transport error, or a 2xx body whose
\* "embeddings" / "data" value is a list of items, or is missing.
UpstreamError == [kind |-> "error", islist |-> FALSE, items |-> <<>>]
Body(items) == [kind |-> "ok", islist |-> TRUE, items |-> items]
BodyWithoutList == [kind |-> "ok", islist |-> FALSE, items |-> <<>>]

\* The answer of /api/embeddings to one prompt: an error, or a body whose
\* "embedding" is the item.
SingleError == [kind |-> "error", item |-> NotAVector]
SingleBody(item) == [kind |-> "ok", item |-> item]

EmbedReturned(out) == [kind |-> "returned", status |-> 200, out |-> out]
EmbedRaised(status) == [kind |-> "raised", status |-> status, out |-> <<>>]

\* embed_ollama: the per-input loop over /api/embeddings
RECURSIVE embed_ollama_loop(_, _, _, _)
embed_ollama_loop(n, single, i, out) ==
    IF i > n THEN EmbedReturned(out)
    ELSE IF single[i].kind = "error" THEN EmbedRaised(502)
    ELSE IF ~single[i].item.islist THEN EmbedRaised(502)
    ELSE embed_ollama_loop(n, single, i + 1, Append(out, single[i].item))

\* embed_ollama(texts, model) for n texts
embed_ollama(n, batch, single) ==
    IF /\ batch.kind = "ok" /\ batch.islist /\ batch.items # <<>>
       /\ batch.items[1].islist
    THEN EmbedReturned(batch.items)
    ELSE embed_ollama_loop(n, single, 1, <<>>)

\* embed_mlx(texts, model) for n texts; `texts[0]` raises for no texts.
embed_mlx(n, answer) ==
    IF n = 0 THEN EmbedRaised(500)
    ELSE IF answer.kind = "error" THEN EmbedRaised(502)
    ELSE LET out == SelectSeq(answer.items, LAMBDA item : item.islist) IN
         IF Len(out) # n THEN EmbedRaised(502) ELSE EmbedReturned(out)

\* What an upstream may put where the vectors are expected.
EmbedItems == {Vec(1), Vec(2), NotAVector}

EmbedAnswers ==
    {UpstreamError, BodyWithoutList}
    \cup {Body(items) : items \in UNION {[1..k -> EmbedItems] : k \in 0..(MaxTexts + 1)}}

SingleAnswers == {SingleError} \cup {SingleBody(item) : item \in EmbedItems}

NoEmbedCall ==
    [backend |-> "none", n |-> 0, answer |-> UpstreamError, single |-> <<>>,
     result |-> EmbedRaised(0)]

EmbedInit == embed_last = NoEmbedCall

\* embeddings with EMBEDDINGS_BACKEND = "ollama": one call of embed_ollama.
EmbedOllama(n, batch, single) ==
    /\ embed_last = NoEmbedCall
    /\ embed_last' = [backend |-> "ollama", n |-> n, answer |-> batch, single |-> single,
                      result |-> embed_ollama(n, batch, single)]
    /\ UNCHANGED <<auth_settings, auth_last, pt_last, hc_up, hc_loop>>
    /\ UNCHANGED <<streamVars, admitVars, routeVars, toolVars, loopVars>>

\* embeddings with another EMBEDDINGS_BACKEND: one call of embed_mlx.
EmbedMlx(n, answer) ==
    /\ embed_last = NoEmbedCall
    /\ embed_last' = [backend |-> "mlx", n |-> n, answer |-> answer, single |-> <<>>,
                      result |-> embed_mlx(n, answer)]
    /\ UNCHANGED <<auth_settings, auth_last, pt_last, hc_up, hc_loop>>
    /\ UNCHANGED <<streamVars, admitVars, routeVars, toolVars, loopVars>>

\* The response has been written; the handler takes the next request.
EmbedResponseSent ==
    /\ embed_last # NoEmbedCall
    /\ embed_last' = NoEmbedCall
    /\ UNCHANGED <<auth_settings, auth_last, pt_last, hc_up, hc_loop>>
    /\ UNCHANGED <<streamVars, admitVars, routeVars, toolVars, loopVars>>

EmbedNext ==
    \/ EmbedResponseSent
    \/ \E n \in 0..MaxTexts, batch \in EmbedAnswers :
          \E single \in [1..n -> SingleAnswers] : EmbedOllama(n, batch, single)
    \/ \E n \in 0..MaxTexts, answer \in EmbedAnswers : EmbedMlx(n, answer)

(***************************************************************************)
(* Pass-through of an OpenAI-style SSE stream (app/streaming.py            *)
(* passthrough_sse, app/upstreams.py stream_mlx_openai_chat), on bytes.    *)
(***************************************************************************)
\* Upstream chunks of one stream, at most.
MaxPassChunks == 3

\* `tail = hay[-64:]`
TailBytes == 64

\* b"data: [DONE]", the marker passthrough_sse looks for
DoneMarker == "data: [DONE]"

\* sse_done() as bytes
sse_done_bytes == "data: [DONE]\n\n"

\* `needle in hay`
contains(hay, needle) ==
    \E i \in 1..(Len(hay) - Len(needle) + 1) : SubSeq(hay, i, i + Len(needle) - 1) = needle

\* hay[-n:]
last_bytes(hay, n) == IF Len(hay) <= n THEN hay ELSE SubSeq(hay, Len(hay) - n + 1, Len(hay))

\* passthrough_sse: the loop over resp.aiter_bytes()
RECURSIVE passthrough_loop(_, _)
passthrough_loop(chunks, st) ==
    IF chunks = <<>> THEN st
    ELSE LET chunk == Head(chunks)
             hay   == st.tail \o chunk
         IN  passthrough_loop(Tail(chunks),
                IF chunk = "" THEN st
                ELSE [out |-> st.out \o chunk,
                      done_seen |-> st.done_seen \/ contains(hay, DoneMarker),
                      tail |-> last_bytes(hay, TailBytes)])

\* passthrough_sse(resp) for an upstream that sends the chunks and ends:
\* the bytes it yields.
passthrough_sse(chunks) ==
    LET st == passthrough_loop(chunks, [out |-> "", done_seen |-> FALSE, tail |-> ""])
    IN  IF st.done_seen THEN st.out ELSE st.out \o sse_done_bytes

\* stream_mlx_openai_chat for the same upstream: the bytes it yields.
RECURSIVE stream_mlx_bytes(_)
stream_mlx_bytes(chunks) ==
    IF chunks = <<>> THEN ""
    ELSE LET y == stream_mlx_openai_chat([kind |-> "chunk", chunk |-> Head(chunks)])
         IN  (IF Head(chunks) = "" THEN "" ELSE y.frames[1]) \o stream_mlx_bytes(Tail(chunks))

\* Pieces of upstream byte streams: a content frame, a content frame whose
\* text holds the marker, a content frame longer than the tail, the
\* terminator frame whole and cut in two, and an empty read.
LongText == "xxxxxxxxxxxxxxxxxxxxxxxxxxxxxxxxxxxxxxxxxxxxxxxxxxxxxxxxxxxxxxxxxxxxxxxx"

PassPieces ==
    { "data: {\"c\":\"hi\"}\n\n",
      "data: {\"c\":\"say data: [DONE] now\"}\n\n",
      "data: {\"c\":\"" \o LongText \o "\"}\n\n",
      sse_done_bytes, "data: [D", "ONE]\n\n", "" }

\* The upstream writes whole frames: the two halves of a terminator come
\* together, in two consecutive chunks.
WholeFrames(chunks) ==
    \A i \in 1..Len(chunks) :
        /\ chunks[i] = "data: [D" => (i < Len(chunks) /\ chunks[i + 1] = "ONE]\n\n")
        /\ chunks[i] = "ONE]\n\n" => (i > 1 /\ chunks[i - 1] = "data: [D")

PassStreams ==
    {chunks \in UNION {[1..k -> PassPieces] : k \in 0..MaxPassChunks} : WholeFrames(chunks)}

NoPassthrough == [started |-> FALSE, chunks |-> <<>>, out |-> "", direct |-> ""]

PassInit == pt_last = NoPassthrough

\* One stream of an OpenAI-style upstream is passed through to its end.
Passthrough(chunks) ==
    /\ ~pt_last.started
    /\ pt_last' = [started |-> TRUE, chunks |-> chunks, out |-> passthrough_sse(chunks),
                   direct |-> stream_mlx_bytes(chunks)]
    /\ UNCHANGED <<auth_settings, auth_last, embed_last, hc_up, hc_loop>>
    /\ UNCHANGED <<streamVars, admitVars, routeVars, toolVars, loopVars>>

\* The response is complete; the next stream may start.
PassthroughClosed ==
    /\ pt_last.started
    /\ pt_last' = NoPassthrough
    /\ UNCHANGED <<auth_settings, auth_last, embed_last, hc_up, hc_loop>>
    /\ UNCHANGED <<streamVars, admitVars, routeVars, toolVars, loopVars>>

PassNext ==
    \/ \E chunks \in PassStreams : Passthrough(chunks)
    \/ PassthroughClosed

(***************************************************************************)
(* The health checker's background task (app/health_checker.py).           *)
(***************************************************************************)
\* How many probe cycles end in an exception of _check_all.
MaxCycleErrors == 2

\* registry.backends of a deployment with two backend classes
ProbedBackends == {"gpu_fast", "heartmula_music"}

\* What a GET of a probe can end in.
GetOutcomes == {"200", "non200", "exception"}

\* A loop whose exception is not caught: the task ends with it.
cycle_failed_Uncaught(loop) ==
    [loop EXCEPT !.pc = "ended", !.errors = @ + 1]

\* _check_loop: `except Exception as e: logger.error(...)`, then the sleep
\* and the next iteration.
cycle_failed(loop) ==
    [loop EXCEPT !.pc = "sleeping", !.errors = @ + 1]

\* After HealthChecker.start(): _running is True, the task is about to enter
\* its first iteration, no backend has a status.
CheckerInit ==
    /\ hc_up = [bc \in ProbedBackends |-> "flaky"]
    /\ hc_loop = [pc |-> "sleeping", pending |-> {}, errors |-> 0]

\* A backend starts to answer 200 to liveness and readiness, for good. The
\* value remembers whether the checker had it recorded as not ready then.
BackendRecovers(bc) ==
    /\ hc_up[bc] = "flaky"
    /\ hc_up' = [hc_up EXCEPT ![bc] = IF _status[bc].checked /\ ~_status[bc].is_ready
                                      THEN "up, was not ready" ELSE "up"]
    /\ UNCHANGED <<hc_loop, admitVars, streamVars, routeVars, toolVars, loopVars>>
    /\ UNCHANGED <<auth_settings, auth_last, embed_last, pt_last>>

\* _check_loop enters _check_all, which starts one _check_backend task per
\* backend of the registry and awaits them in asyncio.gather.
CycleStarts ==
    /\ hc_loop.pc = "sleeping"
    /\ hc_loop' = [hc_loop EXCEPT !.pc = "gathering", !.pending = ProbedBackends]
    /\ UNCHANGED <<hc_up, admitVars, streamVars, routeVars, toolVars, loopVars>>
    /\ UNCHANGED <<auth_settings, auth_last, embed_last, pt_last>>

\* _check_all raises before it has started a task (get_registry() raises).
CycleFails ==
    /\ hc_loop.pc = "sleeping"
    /\ hc_loop.errors < MaxCycleErrors
    /\ hc_loop' = cycle_failed(hc_loop)
    /\ UNCHANGED <<hc_up, admitVars, streamVars, routeVars, toolVars, loopVars>>
    /\ UNCHANGED <<auth_settings, auth_last, embed_last, pt_last>>

\* One _check_backend task runs to its end: the GETs, each of which ends
\* within the client's timeout, and `self._status[backend_class] = status`.
ProbeTask(bc) ==
    /\ hc_loop.pc = "gathering" /\ bc \in hc_loop.pending
    /\ \E live \in GetOutcomes, ready \in GetOutcomes :
          /\ hc_up[bc] # "flaky" => live = "200" /\ ready = "200"
          /\ _status' = [_status EXCEPT ![bc] = _check_backend(live, ready)]
    /\ hc_loop' = [hc_loop EXCEPT !.pending = @ \ {bc}]
    /\ UNCHANGED <<hc_up, available, reqs, streamVars, routeVars, toolVars, loopVars>>
    /\ UNCHANGED <<auth_settings, auth_last, embed_last, pt_last>>

\* One _check_backend task raises outside its try blocks (a registry entry
\* without base_url); gather(return_exceptions=True) keeps the exception.
ProbeTaskRaises(bc) ==
    /\ hc_loop.pc = "gathering" /\ bc \in hc_loop.pending
    /\ hc_up[bc] = "flaky"
    /\ hc_loop' = [hc_loop EXCEPT !.pending = @ \ {bc}]
    /\ UNCHANGED <<hc_up, admitVars, streamVars, routeVars, toolVars, loopVars>>
    /\ UNCHANGED <<auth_settings, auth_last, embed_last, pt_last>>

\* gather has returned; the loop sleeps check_interval seconds.
CycleEnds ==
    /\ hc_loop.pc = "gathering" /\ hc_loop.pending = {}
    /\ hc_loop' = [hc_loop EXCEPT !.pc = "sleeping"]
    /\ UNCHANGED <<hc_up, admitVars, streamVars, routeVars, toolVars, loopVars>>
    /\ UNCHANGED <<auth_settings, auth_last, embed_last, pt_last>>

CheckerNext ==
    \/ \E bc \in ProbedBackends : BackendRecovers(bc)
    \/ CycleStarts
    \/ CycleFails
    \/ \E bc \in ProbedBackends : ProbeTask(bc)
    \/ \E bc \in ProbedBackends : ProbeTaskRaises(bc)
    \/ CycleEnds

Init ==
    /\ StreamInit /\ AdmitInit /\ RouteInit /\ ToolInit /\ LoopInit /\ AgentInit
    /\ AuthInit /\ EmbedInit /\ PassInit /\ CheckerInit

SpecStream == Init /\ [][StreamNext]_vars

SpecAdmit == Init /\ [][AdmitNext]_vars

SpecHealth == Init /\ [][HealthNext]_vars

SpecRoute == Init /\ [][RouteNext]_vars

SpecPure == Init /\ [][PureNext]_vars

SpecTools == Init /\ [][ToolsNext]_vars

SpecToolLog == Init /\ [][ToolLogNext]_vars

SpecToolFns == Init /\ [][ToolFnsNext]_vars

\* The running checker: the sleep ends, every GET ends within its timeout
\* and gather returns when its tasks are done.
SpecChecker ==
    /\ Init /\ [][CheckerNext]_vars
    /\ WF_vars(CycleStarts)
    /\ WF_vars(CycleEnds)
    /\ \A bc \in ProbedBackends : WF_vars(ProbeTask(bc) \/ ProbeTaskRaises(bc))

SpecLoop == Init /\ [][LoopNext]_vars

SpecAgent == Init /\ [][AgentNext]_vars

SpecAuth == Init /\ [][AuthNext]_vars

SpecEmbed == Init /\ [][EmbedNext]_vars

SpecPass == Init /\ [][PassNext]_vars


(***************************************************************************)
(* C1                                                                      *)
(***************************************************************************)
RECURSIVE CountDone(_)
CountDone(frames) ==
    IF frames = <<>> THEN 0
    ELSE (IF Head(frames) = sse_done THEN 1 ELSE 0) + CountDone(Tail(frames))

\* C1: every streamed chat or completions response, once its body is
\* exhausted, ends with the terminator frame and contains it exactly once.
C1_DoneExactlyOnce ==
    s_state = "closed" =>
        /\ s_out # <<>>
        /\ s_out[Len(s_out)] = sse_done
        /\ CountDone(s_out) = 1

(***************************************************************************)
(* C2 - C7: admission and health gating                                    *)
(***************************************************************************)
\* Slots of key k held by the requests rs: acquires not yet released.
RECURSIVE HeldUpTo(_, _, _)
HeldUpTo(rs, k, n) ==
    IF n = 0 THEN 0
    ELSE (IF <<rs[n].backend_class, rs[n].capability>> = k THEN rs[n].held ELSE 0)
         + HeldUpTo(rs, k, n - 1)

Inflight(rs, k) == HeldUpTo(rs, k, NumReqs)

AdmittedRoutes == {"music", "ui_chat", "ui_chat_stream"}

\* Request r's handler runs in this step and reaches the admission gate.
ReachesGate(r) ==
    /\ reqs[r].pc = "new"
    /\ reqs'[r].pc # "new"
    /\ reqs'[r].status # 400

\* C2: every slot a request acquired has been released by the time the
\* request has ended, on every exit path; so once all requests have ended
\* no key has a slot in flight.
C2_EveryAcquireReleased ==
    /\ \A r \in Reqs : reqs[r].pc = "done" => reqs[r].held = 0
    /\ (\A r \in Reqs : reqs[r].pc = "done") =>
            \A k \in Keys : available[k] = concurrency_limits(k)

C3_Step(r) ==
    LET k == <<reqs'[r].backend_class, reqs'[r].capability>> IN
    (ReachesGate(r) /\ reqs'[r].route \in AdmittedRoutes /\ reqs'[r].status # 503) =>
        IF available[k] > 0
        THEN /\ reqs'[r].held = 1
             /\ available'[k] = available[k] - 1
             /\ reqs'[r].pc \in {"upstream", "response"}
             /\ reqs'[r].status # 429
        ELSE /\ reqs'[r].status = 429
             /\ reqs'[r].error = "backend_overloaded"
             /\ reqs'[r].retry_after = 5
             /\ reqs'[r].held = 0
             /\ reqs'[r].pc = "done"
             /\ available' = available

C3_OneAdmittedAtLimitOne ==
    \A k \in Keys : concurrency_limits(k) = 1 =>
        Cardinality({r \in Reqs : /\ <<reqs[r].backend_class, reqs[r].capability>> = k
                                  /\ reqs[r].route \in AdmittedRoutes
                                  /\ reqs[r].pc \in {"upstream", "response", "streaming"}}) <= 1

C4_SlotAccounting ==
    \A k \in Keys :
        /\ 0 <= Inflight(reqs, k)
        /\ Inflight(reqs, k) <= concurrency_limits(k)
        /\ 0 <= available[k]
        /\ available[k] + Inflight(reqs, k) = concurrency_limits(k)

\* C4 witness: a key was filled, one slot was released and taken again, and
\* the request after that found the key full.
C4_Witness ==
    \E r1, r2, r3 \in Reqs :
        /\ r1 < r2 /\ r2 < r3
        /\ reqs[r1].route = "music" /\ reqs[r1].pc = "done" /\ reqs[r1].status = 200
        /\ reqs[r2].route = "music" /\ reqs[r2].pc = "upstream" /\ reqs[r2].held = 1
        /\ reqs[r3].route = "music" /\ reqs[r3].status = 429
        /\ available[<<"heartmula_music", "music">>] = 0

C5_Step(r) ==
    LET k == <<reqs'[r].backend_class, reqs'[r].capability>> IN
    reqs'[r] # reqs[r] =>
        /\ \A other \in Keys \ {k} :
              /\ available'[other] = available[other]
              /\ Inflight(reqs', other) = Inflight(reqs, other)
        /\ (reqs[r].status # 429 /\ reqs'[r].status = 429) => available[k] = 0

\* C5: a request's acquire or release changes the available and inflight
\* counts of its own key only, and a 429 is given only when the request's own
\* key has no free slot.
C5_KeysIndependent == [][\A r \in Reqs : C5_Step(r)]_vars

\* C5 witness: one key is exhausted while a request on another key is
\* admitted and served.
C5_Witness ==
    \E r1, r2 \in Reqs :
        /\ reqs[r1].held = 1 /\ reqs[r2].held = 1
        /\ r1 < r2
        /\ <<reqs[r1].backend_class, reqs[r1].capability>>
              # <<reqs[r2].backend_class, reqs[r2].capability>>
        /\ available[<<reqs[r1].backend_class, reqs[r1].capability>>] = 0

C6_Step(r) ==
    (ReachesGate(r) /\ ~is_ready(reqs'[r].backend_class)) =>
        /\ reqs'[r].status = 503
        /\ reqs'[r].error = "backend_not_ready"
        /\ reqs'[r].retry_after = 30
        /\ reqs'[r].held = 0
        /\ ~reqs'[r].called
        /\ available' = available

\* C6: a request whose backend the health gate holds not ready is rejected
\* with 503 backend_not_ready and Retry-After 30; it takes no slot and makes
\* no upstream call.
C6_NotReadyRejected == [][\A r \in Reqs : C6_Step(r)]_vars

C7_Inv ==
    /\ \A bc \in Backends : ~_status[bc].checked => (is_ready(bc) /\ check_backend_ready(bc))
    /\ \A r \in Reqs : reqs[r].status = 503 => _status[reqs[r].backend_class].checked

\* C7: a backend no probe has recorded is ready and requests to it are not
\* rejected by the gate; a backend goes from ready to not ready only in a
\* step that records a completed probe of it.
C7_OptimisticStart ==
    /\ []C7_Inv
    /\ [][\A bc \in Backends :
            (is_ready(bc) /\ ~is_ready(bc)') =>
                (_status'[bc].checked /\ _status'[bc] # _status[bc])]_vars

\* C7 witness: a request passed the gate of a backend no probe has recorded
\* yet, while another backend has been probed and found not ready.
C7_Witness ==
    /\ reqs[1].route = "music" /\ reqs[1].pc = "upstream"
    /\ ~_status["heartmula_music"].checked
    /\ _status["gpu_fast"].checked /\ ~_status["gpu_fast"].is_ready

(***************************************************************************)
(* C8 - C10: the router                                                    *)
(***************************************************************************)
SameCall ==
    /\ seen.valid /\ rq.decided
    /\ rq.request_model = seen.request_model
    /\ rq.headers = seen.headers
    /\ rq.messages = seen.messages
    /\ rq.has_tools = seen.has_tools

\* C8: within one process (one configuration), two calls of decide_route with
\* the same request_model, headers, messages and has_tools return the same
\* backend, model and reason, whatever requests were routed in between and
\* whatever happened to the alias JSON meanwhile.
C8_DecideRoutePure == SameCall => rq.route = seen.route

\* C8 witness: the same call is decided a second time after the alias JSON
\* was edited in a way that would change the decision if it were read again.
C8_Witness ==
    /\ SameCall
    /\ _ALIASES_CACHE.loaded
    /\ decide_route(load_aliases(alias_source), router_cfg, rq.request_model,
                    rq.headers, rq.messages, rq.has_tools) # rq.route

\* The enumerated route-reason tags.
RouteReasonTag(reason) ==
    \/ reason \in {"override:x-backend", "alias:model", "pinned:model", "direct:model",
                   "policy:coding->alias:coder", "policy:fast", "policy:fast->alias:fast"}
    \/ startswith(reason, "policy:tools->") /\ Len(reason) > Len("policy:tools->")
    \/ startswith(reason, "policy:long_context->")
          /\ Len(reason) > Len("policy:long_context->")

\* C9: every response of chat/completions and completions for which a route
\* was decided carries X-Router-Reason, equal to the decision's reason, which
\* is one of the enumerated tags.
C9_ReasonHeaderOnEveryResponse ==
    (rq.pc = "done" /\ rq.decided) =>
        /\ "X-Router-Reason" \in DOMAIN rq.resp_headers
        /\ rq.resp_headers["X-Router-Reason"] = rq.route.reason
        /\ RouteReasonTag(rq.route.reason)

\* The rules of the router in their listed order, each with the prefix of the
\* reason it records; policy rules as they read with policy routing enabled.
MatchesOverride == lower(strip(HeaderOr(rq.headers, "x-backend"))) \in {"ollama", "mlx"}
MatchesAlias == lower(strip(rq.request_model)) \in DOMAIN _ALIASES_CACHE.table
MatchesPinned ==
    LET m == lower(strip(rq.request_model)) IN
    \/ startswith(m, "ollama:") \/ startswith(m, "mlx:")
    \/ m \in {"ollama", "mlx", "ollama-default", "mlx-default"}
MatchesCoding ==
    /\ settings.ROUTER_ENABLE_REQUEST_TYPE
    /\ lower(strip(HeaderOr(rq.headers, "x-request-type"))) = "coding"
MatchesLongContext ==
    LET long == _ALIASES_CACHE.table["long"] IN
    _approx_text_size(rq.messages) >=
        (IF long.context_window # 0 THEN long.context_window
         ELSE router_cfg.long_context_chars_threshold)

EarliestRule ==
    IF MatchesOverride THEN "override:x-backend"
    ELSE IF MatchesAlias THEN "alias:model"
    ELSE IF MatchesPinned THEN "pinned:model"
    ELSE IF MatchesCoding THEN "policy:coding->"
    ELSE IF rq.has_tools THEN "policy:tools->"
    ELSE IF MatchesLongContext THEN "policy:long_context->"
    ELSE "policy:fast"

\* C10: with policy routing enabled, the reason of a decision is that of the
\* earliest rule the request matches, in the order x-backend override, alias
\* hit, pinned model, coding classification, has_tools, long context, fast.
C10_FirstMatchingRuleDecides ==
    (rq.decided /\ settings.ROUTER_ENABLE_POLICY) =>
        startswith(rq.route.reason, EarliestRule)

(***************************************************************************)
(* C11 - C18: the router's rules                                           *)
(***************************************************************************)
\* The backend named by the x-backend header, as the router reads it.
HdrBackend == lower(strip(HeaderOr(rq.headers, "x-backend")))

\* The configured strong model of a backend.
StrongOf(backend) ==
    IF backend = "ollama" THEN router_cfg.ollama_strong_model
    ELSE router_cfg.mlx_strong_model

\* A request model that names no model of its own.
SentinelModel(model) == lower(strip(model)) \in {"auto", "default", ""}

\* C11: an x-backend header naming a known backend decides the backend
\* whatever else the request holds, with reason override:x-backend; a sentinel
\* request model (auto, default) becomes that backend's strong model.  A
\* header naming an unknown backend does not override.
C11_HeaderOverride ==
    rq.decided =>
        /\ HdrBackend \in {"ollama", "mlx"} =>
              /\ rq.route.backend = HdrBackend
              /\ rq.route.reason = "override:x-backend"
              /\ SentinelModel(rq.request_model) => rq.route.model = StrongOf(HdrBackend)
        /\ HdrBackend \notin {"ollama", "mlx"} => rq.route.reason # "override:x-backend"

\* C12: without an x-backend override, a request model that is a key of the
\* alias table is routed to that alias's backend and upstream model with
\* reason alias:model, whatever has_tools, the message size and the flags are.
C12_AliasHit ==
    (rq.decided /\ ~MatchesOverride /\ MatchesAlias) =>
        LET a == _ALIASES_CACHE.table[lower(strip(rq.request_model))] IN
        /\ rq.route.backend = a.backend
        /\ rq.route.model = a.upstream_model
        /\ rq.route.reason = "alias:model"

\* C12 witness: an alias is named by a request that also carries tools and a
\* long message while policy routing is enabled.
C12_Witness ==
    /\ rq.decided /\ ~MatchesOverride
    /\ lower(strip(rq.request_model)) = "coder"
    /\ rq.has_tools
    /\ _approx_text_size(rq.messages) >= ROUTER_LONG_CONTEXT_CHARS
    /\ settings.ROUTER_ENABLE_POLICY
    /\ rq.route.reason = "alias:model"

\* The backend a pinned request model names.
PinnedBackend == IF startswith(lower(strip(rq.request_model)), "ollama") THEN "ollama" ELSE "mlx"

\* C13: without override and alias hit, a request model <b>:<name>, <b> or
\* <b>-default is routed to backend b with reason pinned:model; <b>:<name>
\* forwards <name>, while <b>, <b>-default and <b>:default forward b's strong
\* model and never the literal sentinel.
C13_PinnedModel ==
    (rq.decided /\ ~MatchesOverride /\ ~MatchesAlias /\ MatchesPinned) =>
        LET b == PinnedBackend
            m == lower(strip(rq.request_model))
        IN  /\ rq.route.backend = b
            /\ rq.route.reason = "pinned:model"
            /\ rq.route.model =
                  IF m \in {b, b \o "-default", b \o ":default"}
                  THEN StrongOf(b)
                  ELSE after(strip(rq.request_model), b \o ":")

\* C14: with policy routing disabled, a request that matches no override,
\* alias or pin goes to the default backend under its own model name with
\* reason direct:model, whatever has_tools and the size are; the sentinel auto
\* is replaced by that backend's strong model.
C14_PolicyDisabledIsDirect ==
    (rq.decided /\ ~settings.ROUTER_ENABLE_POLICY
        /\ ~MatchesOverride /\ ~MatchesAlias /\ ~MatchesPinned) =>
        /\ rq.route.reason = "direct:model"
        /\ rq.route.backend = router_cfg.default_backend
        /\ rq.route.model = IF SentinelModel(rq.request_model)
                            THEN StrongOf(router_cfg.default_backend)
                            ELSE strip(rq.request_model)

\* No rule before the policy rules matches the request.
NoEarlierRule == rq.decided /\ ~MatchesOverride /\ ~MatchesAlias /\ ~MatchesPinned

\* The alias exists and does not disallow tools.
AllowsTools(name) ==
    name \in DOMAIN _ALIASES_CACHE.table /\ _ALIASES_CACHE.table[name].tools # "False"

\* C15: with policy routing enabled and no earlier rule matching, a request
\* with tools goes to alias default if it allows tools, else to alias coder if
\* it allows tools, else to the chosen backend's strong model, with a reason
\* starting policy:tools->; never to an alias that disallows tools.
C15_ToolsRule ==
    (NoEarlierRule /\ settings.ROUTER_ENABLE_POLICY /\ ~MatchesCoding /\ rq.has_tools) =>
        LET t == _ALIASES_CACHE.table IN
        /\ startswith(rq.route.reason, "policy:tools->")
        /\ IF AllowsTools("default")
           THEN rq.route = RouteDecision(t["default"].backend, t["default"].upstream_model,
                                         "policy:tools->alias:default")
           ELSE IF AllowsTools("coder")
           THEN rq.route = RouteDecision(t["coder"].backend, t["coder"].upstream_model,
                                         "policy:tools->alias:coder")
           ELSE rq.route = RouteDecision(router_cfg.default_backend,
                                         StrongOf(router_cfg.default_backend),
                                         "policy:tools->strong")

\* C15 witness: aliases default and coder both disallow tools, and a request
\* with tools is routed to the strong model.
C15_Witness ==
    /\ NoEarlierRule /\ settings.ROUTER_ENABLE_POLICY /\ ~MatchesCoding /\ rq.has_tools
    /\ ~AllowsTools("default") /\ ~AllowsTools("coder")
    /\ rq.route.reason = "policy:tools->strong"

\* The approximate size of the request's messages: string contents by their
\* length, other contents by the length of their JSON text, none for None.
RECURSIVE ContentSize(_)
ContentSize(messages) ==
    IF messages = <<>> THEN 0
    ELSE (CASE Head(messages).kind = "str"  -> Head(messages).n
            [] Head(messages).kind = "json" -> Head(messages).n
            [] OTHER -> 0)
         + ContentSize(Tail(messages))

\* Alias long's context_window if set, else long_context_chars_threshold.
LongThreshold ==
    LET t == _ALIASES_CACHE.table IN
    IF "long" \in DOMAIN t /\ t["long"].context_window # 0
    THEN t["long"].context_window
    ELSE router_cfg.long_context_chars_threshold

\* C16: with policy routing enabled and no earlier rule matching, a request
\* whose approximate size is at least the threshold goes to alias long if
\* present, else to the MLX strong model, with a reason starting
\* policy:long_context->; a request strictly below the threshold is not routed
\* by this rule.
C16_LongContextRule ==
    (NoEarlierRule /\ settings.ROUTER_ENABLE_POLICY /\ ~MatchesCoding /\ ~rq.has_tools) =>
        LET t == _ALIASES_CACHE.table IN
        IF ContentSize(rq.messages) >= LongThreshold
        THEN IF "long" \in DOMAIN t
             THEN rq.route = RouteDecision(t["long"].backend, t["long"].upstream_model,
                                           "policy:long_context->alias:long")
             ELSE rq.route = RouteDecision("mlx", router_cfg.mlx_strong_model,
                                           "policy:long_context->mlx")
        ELSE ~startswith(rq.route.reason, "policy:long_context")

\* C16 witness: messages with a non-string content whose size is exactly the
\* threshold are routed to alias long.
C16_Witness ==
    /\ NoEarlierRule /\ settings.ROUTER_ENABLE_POLICY /\ ~MatchesCoding /\ ~rq.has_tools
    /\ \E i \in 1..Len(rq.messages) : rq.messages[i].kind = "json"
    /\ ContentSize(rq.messages) = LongThreshold
    /\ rq.route.reason = "policy:long_context->alias:long"

\* A 200 response to a chat request of one user message of 45 000 characters,
\* no tools and no routing headers, naming the given model, with policy
\* routing enabled.
LongChatAnswered(model) ==
    /\ rq.endpoint = "chat" /\ rq.pc = "done" /\ rq.status = 200
    /\ settings.ROUTER_ENABLE_POLICY
    /\ rq.request_model = model
    /\ rq.messages = <<StrContent(45000)>>
    /\ rq.headers = <<>>
    /\ ~rq.has_tools

\* C17 as stated: with policy routing enabled, a chat request naming model
\* "default" with a single user message of 45 000 characters gets an
\* X-Router-Reason starting policy:long_context and the backend of alias long.
C17_DefaultModelLongContext ==
    LongChatAnswered("default") =>
        /\ startswith(rq.resp_headers["X-Router-Reason"], "policy:long_context")
        /\ rq.resp_headers["X-Backend-Used"] = _ALIASES_CACHE.table["long"].backend

\* C17 amended: that request names alias default, so it is routed by the alias
\* rule: X-Router-Reason is alias:model and the backend is alias default's.
\* The same request naming a model that is no alias, pin or sentinel of a rule
\* before (here "auto") is routed by the long-context rule: the reason starts
\* policy:long_context and the backend is alias long's.
C17_AliasBeforeLongContext ==
    /\ LongChatAnswered("default") =>
          /\ rq.resp_headers["X-Router-Reason"] = "alias:model"
          /\ rq.resp_headers["X-Backend-Used"] = _ALIASES_CACHE.table["default"].backend
    /\ LongChatAnswered("auto") =>
          /\ startswith(rq.resp_headers["X-Router-Reason"], "policy:long_context")
          /\ rq.resp_headers["X-Backend-Used"] = _ALIASES_CACHE.table["long"].backend

\* C17 witness: the request naming "default" has been answered, by a backend
\* other than alias long's.
C17_Witness ==
    /\ LongChatAnswered("default")
    /\ rq.resp_headers["X-Router-Reason"] = "alias:model"
    /\ rq.resp_headers["X-Backend-Used"] # _ALIASES_CACHE.table["long"].backend

\* C18: with policy routing and request-type routing enabled, a request that
\* matches no override, alias or pin and is classified as coding goes to alias
\* coder with reason policy:coding->alias:coder; a request not classified as
\* coding never gets that reason.
C18_CodingRule ==
    (NoEarlierRule /\ settings.ROUTER_ENABLE_POLICY) =>
        IF MatchesCoding
        THEN rq.route = RouteDecision(_ALIASES_CACHE.table["coder"].backend,
                                      _ALIASES_CACHE.table["coder"].upstream_model,
                                      "policy:coding->alias:coder")
        ELSE ~startswith(rq.route.reason, "policy:coding")

(***************************************************************************)
(* C19 - C20: the tool bus                                                 *)
(***************************************************************************)
\* The call ran its tool and its response is with the client.
Executed(call) == call.pc = "done" /\ call.status = 200

\* Two calls with identical {name, version, args}: the version is the one of the
\* tool's declaration, so it is the same whenever the name is.
SameInvocation(a, b) == a.name = b.name /\ a.arguments = b.arguments

\* C19: two tool invocations that ran return different replay_id values, and
\* when their {name, version, args} are identical both responses carry a
\* request_hash and the two hashes are equal.
C19_SameHashFreshReplayId ==
    (Executed(tool_prev) /\ Executed(tool_last)) =>
        /\ tool_prev.body.replay_id # tool_last.body.replay_id
        /\ SameInvocation(tool_prev, tool_last) =>
              /\ "request_hash" \in DOMAIN tool_prev.body
              /\ "request_hash" \in DOMAIN tool_last.body
              /\ tool_prev.body.request_hash = tool_last.body.request_hash

\* A value has the type its property declares.
HasDeclaredType(sch, v) ==
    CASE sch.type = "string" -> v.type = "str"
      [] sch.type = "array" ->
            /\ v.type = "list"
            /\ sch.items = "string" => \A i \in DOMAIN v.val : v.val[i].type = "str"
      [] sch.type = "object" ->
            /\ v.type = "dict"
            /\ sch.additionalProperties = "string" =>
                   \A k \in DOMAIN v.val : v.val[k].type = "str"
      [] OTHER -> TRUE

\* The fields of a call's arguments that break the tool's declaration: fields
\* outside the properties, required fields left out, fields of the wrong type.
UndeclaredFields(params, args) ==
    IF params.additionalProperties = "False"
    THEN {k \in DOMAIN args : \A i \in DOMAIN params.properties : params.properties[i].key # k}
    ELSE {}

OmittedFields(params, args) ==
    {params.required[i] : i \in {j \in DOMAIN params.required : params.required[j] \notin DOMAIN args}}

WrongTypeFields(params, args) ==
    {params.properties[i].key :
        i \in {j \in DOMAIN params.properties :
                  /\ params.properties[j].key \in DOMAIN args
                  /\ ~HasDeclaredType(params.properties[j].sch,
                                      args[params.properties[j].key])}}

\* The issue names the field.
Mentions(issue, field) ==
    \E i \in 1..(Len(issue) - Len(field) + 1) : SubSeq(issue, i, i + Len(field) - 1) = field

\* The step answers a call that got as far as the validation of its arguments:
\* the tool exists, it is allowed, and the arguments are a JSON object.
ValidatedCall ==
    /\ tool_settings' = tool_settings
    /\ tool_last'.pc = "done"
    /\ isinstance(tool_last'.name, "str")
    /\ tool_last'.name.val \in TOOL_IMPL
    /\ is_tool_allowed(tool_last'.name.val, tool_settings)
    /\ isinstance(tool_last'.arguments, "dict")

C20_Step ==
    ValidatedCall =>
        LET params == TOOL_SCHEMAS[tool_last'.name.val]
            args   == tool_last'.arguments.val
            broken == UndeclaredFields(params, args) \cup OmittedFields(params, args)
                        \cup WrongTypeFields(params, args)
            detail == tool_last'.detail
        IN  IF broken # {}
            THEN /\ tool_last'.status = 400
                 /\ isinstance(detail, "dict")
                 /\ "error_type" \in DOMAIN detail.val
                 /\ detail.val.error_type = "invalid_arguments"
                 /\ "issues" \in DOMAIN detail.val
                 /\ \A field \in broken :
                        \E i \in DOMAIN detail.val.issues : Mentions(detail.val.issues[i], field)
            ELSE tool_last'.status # 400

\* C20: a call whose arguments hold a field outside the declared properties,
\* leave out a required field or hold a value of the wrong declared type is
\* answered 400 with error_type invalid_arguments and an issues list that
\* names every such field; a call whose arguments break none of the three is
\* not answered 400.
C20_InvalidArgumentsRejected == [][C20_Step]_vars

(***************************************************************************)
(* C21 - C23: resolution, allowlist and failures of tools                  *)
(***************************************************************************)
\* The step answers a call that _execute_tool was given: a name and arguments
\* that are a JSON object.
ExecutedCall ==
    /\ tool_settings' = tool_settings
    /\ tool_last'.pc = "done"
    /\ isinstance(tool_last'.name, "str")
    /\ tool_last'.name.val # ""
    /\ isinstance(tool_last'.arguments, "dict")

\* The response is an error with the envelope {"error_type": error_type, ...}.
ErrorEnvelope(call, status, error_type) ==
    /\ call.status = status
    /\ isinstance(call.detail, "dict")
    /\ "error_type" \in DOMAIN call.detail.val
    /\ call.detail.val.error_type = error_type

C21_Step ==
    ExecutedCall =>
        LET name    == tool_last'.name.val
            allowed == is_tool_allowed(name, tool_settings)
        IN  /\ (name \notin TOOL_IMPL /\ ~allowed) => ErrorEnvelope(tool_last', 404, "unknown_tool")
            /\ (name \notin TOOL_IMPL /\ allowed) => ErrorEnvelope(tool_last', 404, "undeclared_tool")
            /\ (name \in TOOL_IMPL /\ ~allowed) => tool_last'.status = 403
            /\ (name \notin TOOL_IMPL \/ ~allowed) => tool_last'.status # 400

\* C21: a tool name with neither declaration nor handler is answered 404
\* unknown_tool, or 404 undeclared_tool when the name is allowlisted; a declared
\* tool outside the allowlist is answered 403; in none of these cases do the
\* arguments matter, so the answer is never 400.
C21_ResolutionThenAllowlist == [][C21_Step]_vars

\* The step answers a call that was admitted: it passed resolution, allowlist
\* and validation, so its tool was run.
AdmittedCall ==
    /\ ValidatedCall
    /\ LET params == TOOL_SCHEMAS[tool_last'.name.val]
           args   == tool_last'.arguments.val
       IN  UndeclaredFields(params, args) \cup OmittedFields(params, args)
             \cup WrongTypeFields(params, args) = {}

C22_Step ==
    AdmittedCall =>
        /\ tool_last'.status = 200
        /\ "replay_id" \in DOMAIN tool_last'.body
        /\ \E i \in DOMAIN tool_log' :
              /\ i \notin DOMAIN tool_log
              /\ tool_log'[i].replay_id = tool_last'.body.replay_id
        /\ ~tool_last'.body.ok =>
              /\ "error_type" \in DOMAIN tool_last'.body
              /\ "error_message" \in DOMAIN tool_last'.body

\* C22: an admitted call is answered 200 with a replay_id and a new log line
\* whether its tool succeeds, reports an error or raises; when the tool failed
\* the result has ok=false, an error_type and an error_message.
C22_ToolFailureIsAResult == [][C22_Step]_vars

\* The names TOOLS_ALLOWLIST lists.
ExplicitNames(S) ==
    LET parts == split(S.TOOLS_ALLOWLIST, ",")
    IN  {strip(parts[i]) : i \in DOMAIN parts} \ {""}

\* The names the feature toggles enable.
ToggleNames(S) ==
    {name \in TOOL_IMPL :
        \/ name = "shell" /\ S.TOOLS_ALLOW_SHELL
        \/ name \in {"read_file", "write_file"} /\ S.TOOLS_ALLOW_FS
        \/ name = "http_fetch" /\ S.TOOLS_ALLOW_HTTP_FETCH
        \/ name = "git" /\ S.TOOLS_ALLOW_GIT}

\* The step answers a call of a tool that has a handler.
KnownToolCall == ExecutedCall /\ tool_last'.name.val \in TOOL_IMPL

\* C23 as stated: a tool is allowed, that is its call is not answered 403, if
\* and only if its name is listed in TOOLS_ALLOWLIST or enabled by a toggle.
C23_AllowlistIsUnion ==
    [][KnownToolCall =>
          (tool_last'.status # 403
             <=> tool_last'.name.val \in ExplicitNames(tool_settings)
                                          \cup ToggleNames(tool_settings))]_vars

\* C23 amended: when TOOLS_ALLOWLIST is set (not blank), a tool is allowed if
\* and only if it is listed, whatever the toggles say; when it is blank, a tool
\* is allowed if and only if a toggle enables it.
C23_AllowlistReplacesToggles ==
    [][KnownToolCall =>
          (tool_last'.status # 403
             <=> tool_last'.name.val \in
                    (IF strip(tool_settings.TOOLS_ALLOWLIST) # ""
                     THEN ExplicitNames(tool_settings)
                     ELSE ToggleNames(tool_settings)))]_vars

\* C23 witness: with a TOOLS_ALLOWLIST that does not list http_fetch and the
\* http_fetch toggle on, a call of http_fetch has been answered 403.
C23_Witness ==
    /\ tool_last.pc = "done"
    /\ tool_last.status = 403
    /\ tool_last.name = JStr("http_fetch")
    /\ tool_settings.TOOLS_ALLOW_HTTP_FETCH
    /\ strip(tool_settings.TOOLS_ALLOWLIST) # ""
    /\ "http_fetch" \notin ExplicitNames(tool_settings)

(***************************************************************************)
(* C24 - C25: runs that call tools                                         *)
(***************************************************************************)
\* C24: a tool loop makes at most max_steps tool-using turns, and a loop whose
\* model still asks for tools in turn max_steps ends by returning a result with
\* ok=false and reason max_turns: it does not raise and makes no further
\* upstream call.
C24_LoopEndsAtMaxTurns ==
    /\ tl.step <= max_steps
    /\ tl.upstream_calls <= max_steps
    /\ tl.step = max_steps =>
          /\ tl.pc = "returned"
          /\ tl.status = 200
          /\ tl.detail = "max_turns"

\* Run r is accepted or shed in this step.
AgentStarts(r) == agent_runs[r].pc = "new" /\ agent_runs'[r].pc # "new"

C25_Step ==
    \A r \in DOMAIN agent_runs :
        /\ (AgentStarts(r) /\ agent_settings.AGENT_SHED_HEAVY /\ agent_runs'[r].tier >= 1
               /\ heavy_slots = 0)
              => /\ agent_runs'[r].pc = "done"
                 /\ agent_runs'[r].status = 429
                 /\ agent_runs'[r].error = "shed_heavy"
                 /\ agent_runs'[r].upstream_calls = 0
        /\ agent_runs[r].status = 429 => agent_runs'[r] = agent_runs[r]

UpstreamFailed ==
    /\ s_up # <<>>
    /\ s_up[Len(s_up)].kind \in {"status_error", "request_error"}

ErrorFrames(frames) == {i \in 1..Len(frames) : frames[i] = ErrorFrame}

\* C26: a chat or completions stream whose upstream answered non-2xx or failed
\* in transport carries exactly one error frame, the terminator follows it
\* directly, and nothing comes after the terminator.
C26_StreamErrorIsOneFrame ==
    (s_state = "closed" /\ UpstreamFailed) =>
        /\ Cardinality(ErrorFrames(s_out)) = 1
        /\ Len(s_out) >= 2
        /\ s_out[Len(s_out) - 1] = ErrorFrame
        /\ s_out[Len(s_out)] = sse_done

\* C27: once the client has disconnected in the middle of a stream, the
\* generator hands out no further frame, the terminator included, and the
\* upstream connection is closed.
C27_DisconnectStopsStream ==
    s_state = "cancelled" =>
        /\ s_late = <<>>
        /\ s_conn = "closed"

(***************************************************************************)
(* C28 - C30: chat requests that are refused before any upstream call      *)
(***************************************************************************)
\* The chat request in hand has been taken up by chat_completions.
ChatRequest == rq.endpoint = "chat" /\ rq.pc # "idle"

\* The request is answered 400 and was never handed to an upstream: the
\* handler awaits no upstream call and no tool loop, and builds no stream.
Refused400 ==
    /\ rq.pc = "done"
    /\ rq.status = 400
    /\ rq.resp_headers = <<>>

\* C28: a chat request with stream=true and a non-empty tools list is answered
\* 400 without an upstream chat request or a tool call.
C28_StreamWithToolsRejected ==
    (ChatRequest /\ rq.stream /\ rq.has_tools) => Refused400

\* C28 witness: such a request was refused although its alias allows tools.
C28_Witness ==
    /\ ChatRequest /\ rq.stream /\ rq.has_tools
    /\ Refused400
    /\ _apply_alias_constraints(_ALIASES_CACHE.table, TRUE,
          _selected_alias_name(_ALIASES_CACHE.table, rq.request_model, rq.route.reason))

\* C29: a chat request with an empty messages list is answered 400 before
\* the router is called, and no upstream is called for it.
C29_EmptyMessagesRejected ==
    (ChatRequest /\ rq.messages = <<>>) => (Refused400 /\ ~rq.decided)

\* The request names an alias of the loaded table whose tools flag is false.
NamesToollessAlias ==
    LET key == lower(strip(rq.request_model)) IN
    /\ key \in DOMAIN _ALIASES_CACHE.table
    /\ _ALIASES_CACHE.table[key].tools = "False"

\* C30: a chat request that names an alias with tools_allowed=false and
\* carries tools is refused, and no upstream chat call is made for it.
C30_ToollessAliasRejectsTools ==
    (ChatRequest /\ rq.has_tools /\ NamesToollessAlias) => Refused400

\* C30 witness: a non-streaming request with tools that names such an alias
\* was refused.
C30_Witness ==
    /\ ChatRequest /\ rq.has_tools /\ ~rq.stream
    /\ NamesToollessAlias
    /\ Refused400

(***************************************************************************)
(* C31: authentication and the IP allowlist                                *)
(***************************************************************************)
\* The last request carried a Bearer authorization header.
HasBearer == startswith(lower(auth_last.auth), "bearer ")

PresentedToken == strip(after(auth_last.auth, "bearer "))

\* The allowlist that applies to the presented token: its own if its policy
\* has one, else the global one.
ApplicableAllowlist ==
    LET tok == PresentedToken
        own == IF tok \in DOMAIN auth_settings.GATEWAY_TOKEN_POLICIES
               THEN auth_settings.GATEWAY_TOKEN_POLICIES[tok].ip_allowlist
               ELSE ANone
    IN  IF own.type = "list" \/ (own.type = "str" /\ ~is_blank(own.parts)) THEN own
        ELSE auth_settings.IP_ALLOWLIST

\* The client address lies inside the allowlist; an allowlist or an address
\* that cannot be parsed lets nobody in.
InsideAllowlist(host, al) ==
    /\ al.type = "str"
    /\ \/ is_blank(al.parts)
       \/ /\ host.kind = "addr"
          /\ \E i \in 1..Len(al.parts) :
                /\ al.parts[i].kind \in {"ip", "net"}
                /\ ip_in_net(host.addr, ip_network(al.parts[i].addr, al.parts[i].prefix))

\* C31: on a bearer-protected endpoint a request without a Bearer header
\* gets 401, one with a token outside the accepted set gets 403, one with an
\* accepted token from an address outside the applicable allowlist gets 403,
\* and the handler body runs in none of these cases.
C31_BearerAndAllowlist ==
    auth_last.endpoint # "none" =>
        /\ ~HasBearer => (auth_last.status = 401 /\ ~auth_last.body_ran)
        /\ (HasBearer /\ PresentedToken \notin _allowed_bearer_tokens(auth_settings))
              => (auth_last.status = 403 /\ ~auth_last.body_ran)
        /\ (HasBearer /\ PresentedToken \in _allowed_bearer_tokens(auth_settings)
               /\ ~InsideAllowlist(auth_last.host, ApplicableAllowlist))
              => (auth_last.status = 403 /\ ~auth_last.body_ran)

(***************************************************************************)
(* C32: embeddings are aligned to the inputs                               *)
(***************************************************************************)
\* C32: an embeddings call that returns yields one vector per input,
\* whichever upstream path answered; an upstream answer with another number
\* of vectors is not returned as a result.
C32_OneVectorPerInput ==
    embed_last.result.kind = "returned" =>
        /\ Len(embed_last.result.out) = embed_last.n
        /\ \A i \in 1..Len(embed_last.result.out) : embed_last.result.out[i].islist

(***************************************************************************)
(* C33: the order of the frames of a translated NDJSON stream              *)
(***************************************************************************)
\* A chat stream translated from NDJSON has ended and its upstream did not fail.
NdjsonStreamEnded ==
    /\ s_endpoint = "chat" /\ s_backend = "ollama"
    /\ s_state = "closed"
    /\ ~UpstreamFailed

\* The done_reason of the line with done=true, "" when there is none.
UpstreamDoneReason ==
    IF \E i \in 1..Len(s_up) : s_up[i].kind = "chunk" /\ s_up[i].chunk.ok /\ s_up[i].chunk.done
    THEN LET i == CHOOSE i \in 1..Len(s_up) :
                      s_up[i].kind = "chunk" /\ s_up[i].chunk.ok /\ s_up[i].chunk.done
         IN  s_up[i].chunk.done_reason
    ELSE ""

IsFinishFrame(f) == f.type = "chunk" /\ f.finish # "none"

\* C33: a stream translated from NDJSON starts with a frame that carries the
\* role, has exactly one finish frame (empty delta, finish_reason the
\* upstream's done_reason or "stop") after the content frames, also when the
\* upstream ends without done=true, and then the terminator as its last frame.
C33_NdjsonFrameOrder ==
    NdjsonStreamEnded =>
        /\ Len(s_out) >= 3
        /\ s_out[1].type = "chunk" /\ s_out[1].role
        /\ \A i \in 1..(Len(s_out) - 2) : s_out[i].type = "chunk" /\ ~IsFinishFrame(s_out[i])
        /\ LET f == s_out[Len(s_out) - 1] IN
              /\ IsFinishFrame(f)
              /\ f.content = "" /\ ~f.role
              /\ f.finish = (IF UpstreamDoneReason = "" THEN "stop" ELSE UpstreamDoneReason)
        /\ s_out[Len(s_out)] = sse_done

(***************************************************************************)
(* C34: pass-through of an OpenAI-style stream                             *)
(***************************************************************************)
RECURSIVE Concat(_)
Concat(chunks) == IF chunks = <<>> THEN "" ELSE Head(chunks) \o Concat(Tail(chunks))

\* The upstream sent its own terminator frame: a line `data: [DONE]`.
SentTerminatorFrame(bytes) ==
    \E i \in 1..(Len(bytes) - Len(DoneMarker) + 1) :
        /\ SubSeq(bytes, i, i + Len(DoneMarker) - 1) = DoneMarker
        /\ (i = 1 \/ SubSeq(bytes, i - 1, i - 1) = "\n")

\* What the client is to receive for the upstream bytes.
ExpectedBytes(bytes) ==
    IF SentTerminatorFrame(bytes) THEN bytes ELSE bytes \o sse_done_bytes

\* C34: the bytes of an OpenAI-style upstream reach the client unchanged and
\* in order, followed by one terminator exactly when the upstream sent none
\* of its own, however the bytes are cut into chunks and whatever the
\* content frames say.
C34_PassthroughAppendsDoneOnce ==
    pt_last.started =>
        /\ pt_last.out = ExpectedBytes(Concat(pt_last.chunks))
        /\ pt_last.direct = ExpectedBytes(Concat(pt_last.chunks))

(***************************************************************************)
(* C35: the tool calls of one turn                                         *)
(***************************************************************************)
\* The upstream answered with tool calls in this step and the loop ran them.
TurnRan == tl.pc = "upstream" /\ tl'.n_calls > 0

\* Position of an event in the turn's trace, 0 when it did not happen.
At(trace, e) == IF \E i \in 1..Len(trace) : trace[i] = e
                THEN CHOOSE i \in 1..Len(trace) : trace[i] = e
                ELSE 0

C35_Step ==
    TurnRan =>
        LET trace == tl'.trace IN
        \* one at a time, in the order of the answer
        /\ \A k \in 1..tl'.n_calls :
              At(trace, Started(k)) > 0 =>
                /\ k > 1 => (/\ At(trace, Returned(k - 1)) > 0
                             /\ At(trace, Returned(k - 1)) < At(trace, Started(k))
                             /\ At(trace, Appended(k - 1)) < At(trace, Started(k)))
                /\ At(trace, Returned(k)) > 0 => At(trace, Started(k)) < At(trace, Returned(k))
        \* every call is started unless an earlier one raised
        /\ tl'.pc # "raised" \/ tl'.detail # "Internal Server Error"
              => \A k \in 1..tl'.n_calls : At(trace, Appended(k)) > 0
        \* the tool messages are in the same order and all there before the
        \* next upstream call
        /\ tl'.pc = "upstream" =>
              /\ Len(tl'.turn) = tl'.n_calls
              /\ \A i \in 1..Len(tl'.turn) : tl'.turn[i].tool_call_id = i
              /\ tl'.n_messages = tl.n_messages + 1 + tl'.n_calls
              /\ tl'.upstream_calls = tl.upstream_calls + 1

\* C35: the tool calls of a turn run one at a time in the order of the
\* model's answer, call k+1 starting after call k returned, and their tool
\* messages are appended in that order before the next upstream chat call.
C35_ToolCallsInOrder == [][C35_Step]_vars

\* C35 witness: a turn of two calls was run and the next upstream call awaits.
C35_Witness ==
    /\ tl.pc = "upstream"
    /\ tl.n_calls = 2
    /\ Len(tl.turn) = 2
    /\ tl.trace = <<Started(1), Returned(1), Appended(1),
                    Started(2), Returned(2), Appended(2)>>

(***************************************************************************)
(* C36: liveness before readiness                                          *)
(***************************************************************************)
\* C36: a probe asks for readiness only after its liveness GET returned 200;
\* so a recorded status with ready=true has healthy=true, and a backend whose
\* liveness GET returned non-200, timed out or failed is recorded not ready.
C36_ReadinessAfterLiveness ==
    \A bc \in Backends :
        LET st == _status[bc] IN
        st.checked =>
            /\ st.gets # <<>> /\ st.gets[1].path = "health_liveness"
            /\ \A i \in 1..Len(st.gets) :
                  st.gets[i].path = "health_readiness"
                    => (i = 2 /\ st.gets[1].outcome = "200")
            /\ st.is_ready => st.is_healthy
            /\ st.gets[1].outcome # "200" => ~st.is_ready

\* C36 witness: one backend was probed ready, another failed its liveness GET
\* and was not asked for readiness.
C36_Witness ==
    \E b1, b2 \in Backends :
        /\ _status[b1].checked /\ _status[b1].is_ready /\ Len(_status[b1].gets) = 2
        /\ _status[b2].checked /\ _status[b2].gets = <<Get("health_liveness", "exception")>>
        /\ ~_status[b2].is_ready

\* The caller's view of a handler's answer.
Answer(r) == [status |-> r.status, detail |-> r.detail, body |-> r.body]

\* The answer _execute_tool gives to the call of this step when the append to
\* the log succeeds, for each way the tool function can end.
AnswersWhenWritten ==
    {Answer(_execute_tool(tool_last'.name.val, tool_last'.arguments, tool_settings,
                          outcome, issued, "written")) :
        outcome \in ToolOutcomes}

C37_Step ==
    ExecutedCall =>
        /\ Answer(tool_last') \in AnswersWhenWritten
        /\ tool_last'.status = 200 => issued' = issued + 1

AnsweredCall == tool_settings' = tool_settings /\ tool_last'.pc = "done"

C38_Step ==
    (AnsweredCall /\ tool_last'.status \in {400, 403, 404}) =>
        /\ ~tool_last'.executed
        /\ tool_last'.effects = <<>>
        /\ "replay_id" \notin DOMAIN tool_last'.body
        /\ issued' = issued
        /\ tool_log' = tool_log

\* C38: a call answered 404, 403 or 400 has not run the tool function, has
\* taken no replay_id and has left the tool log as it was.
C38_RejectionHasNoEffect == [][C38_Step]_vars

\* C38 witness: after one executed call a call was rejected for its arguments;
\* one id is taken and the log holds one line.
C38_Witness ==
    /\ tool_last.pc = "done" /\ tool_last.status = 400
    /\ isinstance(tool_last.name, "str") /\ tool_last.name.val \in TOOL_IMPL
    /\ tool_prev.status = 200
    /\ issued = 1
    /\ Len(tool_log) = 1

\* The feature toggle of a built-in tool is on; write_file has two.
ToggleOn(name, S) ==
    /\ name \in ToggleNames(S)
    /\ name = "write_file" => S.TOOLS_ALLOW_FS_WRITE

\* The call has started a process.
Spawned(call) == \E i \in DOMAIN call.effects : call.effects[i] = "subprocess.run"

C39_Step ==
    (AnsweredCall /\ tool_last'.executed) =>
        LET name == tool_last'.name.val
        IN  /\ ~ToggleOn(name, tool_settings) =>
                  /\ tool_last'.effects = <<>>
                  /\ tool_last'.status = 200
                  /\ ~tool_last'.body.ok
            /\ (name = "shell" /\ Spawned(tool_last')) =>
                  first_token(tool_last'.arguments.val.cmd.val)
                      \in comma_set(tool_settings.TOOLS_SHELL_ALLOWED_CMDS)

\* C39: a built-in tool that is called while its toggle is off makes no
\* operating system call and returns ok=false, also when TOOLS_ALLOWLIST names
\* it; the shell tool starts a process only for a command whose first token is
\* in TOOLS_SHELL_ALLOWED_CMDS.
C39_ToggleOffNoSideEffect == [][C39_Step]_vars

\* C39 witness: a listed shell tool with its toggle off was called with a
\* command that had started a process while the toggle was on.
C39_Witness ==
    /\ tool_last.pc = "done" /\ tool_last.executed
    /\ tool_last.name = JStr("shell")
    /\ ~tool_settings.TOOLS_ALLOW_SHELL
    /\ tool_last.effects = <<>>
    /\ tool_prev.name = JStr("shell")
    /\ tool_prev.arguments = tool_last.arguments
    /\ Spawned(tool_prev)

\* The checker has the backend recorded as ready.
RecordedReady(bc) == _status[bc].checked /\ _status[bc].is_ready

\* C40: a backend that is recorded not ready and answers 200 to both GETs of
\* every probe from now on is eventually recorded ready and stays so, and from
\* then on check_backend_ready lets its requests pass; this holds whatever
\* exceptions end other cycles and whatever the probes of other backends do.
C40_RecoveredBackendBecomesReady ==
    \A bc \in ProbedBackends :
        (hc_up[bc] # "flaky" /\ ~RecordedReady(bc))
            ~> [](RecordedReady(bc) /\ check_backend_ready(bc))

\* C40 witness: a backend that was recorded not ready when it recovered is
\* recorded ready, cycles have ended in exceptions, and the other backend's
\* last probe failed.
C40_Witness ==
    \E bc, other \in ProbedBackends :
        /\ hc_up[bc] = "up, was not ready"
        /\ RecordedReady(bc)
        /\ hc_loop.errors = MaxCycleErrors
        /\ other # bc
        /\ _status[other].checked /\ ~_status[other].is_ready

====
